---- MODULE Spec2Model ----
(***************************************************************************)
(* A model of the settlement simulation of royshil/serfers: the resource   *)
(* ledger (ResourceManager), the grid path finder (PathFinder), and the    *)
(* world of constructions, porters and builders (World, Construction,      *)
(* Porter, Builder).                                                       *)
(***************************************************************************)
EXTENDS Integers, Sequences, FiniteSets, TLC

VARIABLES
    resources,   \* ResourceManager.resources: resource type -> count
    ret,         \* the value returned by the last ResourceManager call
    lastOp,      \* the name of the last ResourceManager method called
    listeners,   \* ResourceManager.listeners: the callbacks, in list order
    notified,    \* the listener calls the last ResourceManager call made
    pf,          \* the local state of one PathFinder.findPath call
    buildings,   \* World.buildings: the ids of the buildings, in list order
    constructions, \* World.constructions: the ids of the sites, in list order
    objects,     \* every Building and Construction created so far, by id
    tiles,       \* terrain[y][x].building: the id of the occupant, 0 for none
    settlers,    \* World.settlers: the porters, then the builders
    timers,      \* the setTimeout callbacks pending for each settler, by kind
    placement,   \* the building placement mode of the World
    mouse,       \* the terrain cell under the mouse pointer, <<>> for none
    updated,     \* the update() calls of the last World.update, in call order
    adds         \* the number of addResource calls made from outside

ledgerVars == <<resources, ret, lastOp, listeners, notified>>
pathVars == <<pf>>
siteVars == <<buildings, constructions, objects, tiles>>
settlerVars == <<settlers, timers>>
placementVars == <<placement, mouse>>
worldVars == <<siteVars, settlerVars, placementVars, adds, updated>>
vars == <<ledgerVars, pathVars, worldVars>>

(***************************************************************************)
(* Bounds of the model.                                                    *)
(***************************************************************************)
\* the largest amount passed to a ResourceManager call
MaxAmount == 2
\* a count is never raised above the cap by the calls the model enumerates
MaxStock == 11
\* the path finder's grid
PathW == 3
PathH == 2
\* the largest number of entries of ResourceManager.listeners
MaxListeners == 2
\* the largest number of impassable cells of the path finder's grid
MaxWalls == 2

(***************************************************************************)
(* ResourceManager                                                          *)
(***************************************************************************)
ResourceTypes == {"stone", "plank", "iron_ore"}

\* the order in which Object.entries lists the keys of a requirements object
\* (insertion order: plank before stone in buildingCosts)
KeyOrder == <<"plank", "stone", "iron_ore">>

InitialStone == 10
InitialPlank == 10
InitialIronOre == 0

InitialResources ==
    [t \in ResourceTypes |->
        CASE t = "stone" -> InitialStone
          [] t = "plank" -> InitialPlank
          [] OTHER -> InitialIronOre]

\* JavaScript's !x for a count: 0 (and undefined) are falsy
Falsy(n) == n = 0

getResource(res, type) == res[type]

\* the result of a call: the counts, the value returned and the number of
\* _notifyListeners calls made
addResource(res, type, amount) ==
    [res |-> [res EXCEPT ![type] = @ + amount], ok |-> TRUE, notifies |-> 1]

removeResource_NoCheck(res, type, amount) ==
    [res |-> [res EXCEPT ![type] = @ - amount], ok |-> TRUE, notifies |-> 1]

\* a removal that notifies the listeners whether or not it succeeds
removeResource_AlwaysNotifies(res, type, amount) ==
    IF Falsy(res[type]) \/ res[type] < amount
    THEN [res |-> res, ok |-> FALSE, notifies |-> 1]
    ELSE [res |-> [res EXCEPT ![type] = @ - amount], ok |-> TRUE,
          notifies |-> 1]

removeResource(res, type, amount) ==
    IF Falsy(res[type]) \/ res[type] < amount
    THEN [res |-> res, ok |-> FALSE, notifies |-> 0]
    ELSE [res |-> [res EXCEPT ![type] = @ - amount], ok |-> TRUE,
          notifies |-> 1]

consumeResource(res, type, amount) == removeResource(res, type, amount)

\* a requirements object: a function from some resource types to amounts
hasResources(res, requirements) ==
    \A type \in DOMAIN requirements :
        ~(Falsy(res[type]) \/ res[type] < requirements[type])

consumeResources_Partial(res, requirements) ==
    [res |-> [t \in DOMAIN res |->
                 IF t \in DOMAIN requirements /\ res[t] >= requirements[t]
                 THEN res[t] - requirements[t] ELSE res[t]],
     ok |-> hasResources(res, requirements),
     notifies |-> IF hasResources(res, requirements) THEN 1 ELSE 0]

consumeResources(res, requirements) ==
    IF ~hasResources(res, requirements)
    THEN [res |-> res, ok |-> FALSE, notifies |-> 0]
    ELSE [res |-> [t \in DOMAIN res |->
                      IF t \in DOMAIN requirements
                      THEN res[t] - requirements[t] ELSE res[t]],
          ok |-> TRUE, notifies |-> 1]

\* the callbacks that register as listeners
Callbacks == {"a", "b"}

addListener(ls, callback) == Append(ls, callback)

removeListener(ls, callback) == SelectSeq(ls, LAMBDA l : l # callback)

\* a loop over the listeners that stops one entry short
notifyListeners_SkipsLast(ls, res) ==
    [k \in 1..(Len(ls) - 1) |-> <<ls[k], res>>]

\* _notifyListeners: listener(this.resources) for each entry of the list
notifyListeners(ls, res) == [k \in 1..Len(ls) |-> <<ls[k], res>>]

\* the listener calls of a ResourceManager call with the given result
Notified(ls, result) ==
    IF result.notifies = 0 THEN <<>> ELSE notifyListeners(ls, result.res)

\* the inputs the ledger specification enumerates
Amounts == 0..MaxAmount
Requirements ==
    UNION {[D -> Amounts] : D \in SUBSET {"plank", "stone"}}

\* no call of the ledger has been recorded
NoCalls ==
    ret = TRUE /\ lastOp = "new" /\ listeners = <<>> /\ notified = <<>>

LedgerFresh == resources = InitialResources /\ NoCalls

AddResourceCall(type, amount) ==
    /\ resources[type] + amount <= MaxStock
    /\ resources' = addResource(resources, type, amount).res
    /\ ret' = addResource(resources, type, amount).ok
    /\ notified' = Notified(listeners, addResource(resources, type, amount))
    /\ listeners' = listeners
    /\ lastOp' = "addResource"

RemoveResourceCall(type, amount) ==
    /\ resources' = removeResource(resources, type, amount).res
    /\ ret' = removeResource(resources, type, amount).ok
    /\ notified' = Notified(listeners, removeResource(resources, type, amount))
    /\ listeners' = listeners
    /\ lastOp' = "removeResource"

ConsumeResourceCall(type, amount) ==
    /\ resources' = consumeResource(resources, type, amount).res
    /\ ret' = consumeResource(resources, type, amount).ok
    /\ notified' = Notified(listeners, consumeResource(resources, type, amount))
    /\ listeners' = listeners
    /\ lastOp' = "consumeResource"

ConsumeResourcesCall(requirements) ==
    /\ resources' = consumeResources(resources, requirements).res
    /\ ret' = consumeResources(resources, requirements).ok
    /\ notified' = Notified(listeners, consumeResources(resources, requirements))
    /\ listeners' = listeners
    /\ lastOp' = "consumeResources"

AddListenerCall(callback) ==
    /\ Len(listeners) < MaxListeners
    /\ listeners' = addListener(listeners, callback)
    /\ notified' = <<>>
    /\ lastOp' = "addListener"
    /\ UNCHANGED <<resources, ret>>

RemoveListenerCall(callback) ==
    /\ listeners' = removeListener(listeners, callback)
    /\ notified' = <<>>
    /\ lastOp' = "removeListener"
    /\ UNCHANGED <<resources, ret>>

LedgerAdd ==
    \E type \in ResourceTypes, amount \in Amounts :
        AddResourceCall(type, amount) /\ UNCHANGED <<pathVars, worldVars>>
LedgerRemove ==
    \E type \in ResourceTypes, amount \in Amounts :
        RemoveResourceCall(type, amount) /\ UNCHANGED <<pathVars, worldVars>>
LedgerConsume ==
    \E type \in ResourceTypes, amount \in Amounts :
        ConsumeResourceCall(type, amount) /\ UNCHANGED <<pathVars, worldVars>>
LedgerConsumeAll ==
    \E requirements \in Requirements :
        ConsumeResourcesCall(requirements) /\ UNCHANGED <<pathVars, worldVars>>

(***************************************************************************)
(* PathFinder (A* over the 4-connected grid)                               *)
(***************************************************************************)
\* JavaScript's Infinity: larger than every finite score of the model, and
\* absorbing under addition
Infinity == 1000000

JsAdd(a, b) == IF a >= Infinity \/ b >= Infinity THEN Infinity ELSE a + b

Abs(n) == IF n < 0 THEN -n ELSE n

\* map.get(key) || Infinity: a missing entry and a 0 entry both give Infinity
GetOrInfinity(map, key) ==
    IF key \in DOMAIN map /\ map[key] # 0 THEN map[key] ELSE Infinity

Put(map, key, value) ==
    [k \in DOMAIN map \cup {key} |-> IF k = key THEN value ELSE map[k]]

heuristic(x1, y1, x2, y2) == Abs(x1 - x2) + Abs(y1 - y2)

nodeKey(x, y) == <<x, y>>

directions == << <<0, -1>>, <<1, 0>>, <<0, 1>>, <<-1, 0>> >>

\* neighbours taken without looking at the grid
getNeighbors_IgnoreGrid(x, y, grid, w, h) ==
    LET cand == [i \in 1..4 |-> <<x + directions[i][1], y + directions[i][2]>>]
        ok(c) == ~(c[1] < 0 \/ c[2] < 0 \/ c[1] >= w \/ c[2] >= h)
    IN  SelectSeq(cand, ok)

\* grid is the set of the cells that _createGrid marks passable
getNeighbors(x, y, grid, w, h) ==
    LET cand == [i \in 1..4 |-> <<x + directions[i][1], y + directions[i][2]>>]
        ok(c) == /\ ~(c[1] < 0 \/ c[2] < 0 \/ c[1] >= w \/ c[2] >= h)
                 /\ c \in grid
    IN  SelectSeq(cand, ok)

RECURSIVE InsertByF(_, _)
\* e goes behind every element that does not compare greater than it
InsertByF(sorted, e) ==
    IF sorted = <<>> THEN <<e>>
    ELSE IF e.f < Head(sorted).f THEN <<e>> \o sorted
    ELSE <<Head(sorted)>> \o InsertByF(Tail(sorted), e)

RECURSIVE SortFrom(_, _)
SortFrom(sorted, rest) ==
    IF rest = <<>> THEN sorted
    ELSE SortFrom(InsertByF(sorted, Head(rest)), Tail(rest))

Reverse(seq) == [i \in 1..Len(seq) |-> seq[Len(seq) + 1 - i]]

\* a sort that puts the largest f first
SortByF_Descending(openSet) == Reverse(SortFrom(<<>>, openSet))

\* openSet.sort((a, b) => a.f - b.f): stable; a NaN difference (Infinity -
\* Infinity) counts as equal
SortByF(openSet) == SortFrom(<<>>, openSet)

\* openSet.findIndex(n => n.key === key), 0 when there is none
FindIndex(openSet, key) ==
    IF \E i \in 1..Len(openSet) : openSet[i].key = key
    THEN CHOOSE i \in 1..Len(openSet) :
            /\ openSet[i].key = key
            /\ \A j \in 1..(i - 1) : openSet[j].key # key
    ELSE 0

RECURSIVE reconstructPath(_, _)
reconstructPath(cameFrom, current) ==
    IF current \in DOMAIN cameFrom
    THEN reconstructPath(cameFrom, cameFrom[current]) \o <<current>>
    ELSE <<>>

AStarStart(grid, w, h, startX, startY, endX, endY) ==
    [grid |-> grid, w |-> w, h |-> h,
     startX |-> startX, startY |-> startY, endX |-> endX, endY |-> endY,
     openSet |-> << [key |-> nodeKey(startX, startY), x |-> startX, y |-> startY,
                     f |-> heuristic(startX, startY, endX, endY)] >>,
     closedSet |-> {},
     cameFrom |-> <<>>,
     gScore |-> Put(<<>>, nodeKey(startX, startY), 0),
     fScore |-> Put(<<>>, nodeKey(startX, startY),
                    heuristic(startX, startY, endX, endY)),
     done |-> FALSE,
     result |-> <<>>]

\* the closed-set test comes too late: a closed neighbour that is not in the
\* open set is pushed again before it is skipped
VisitNeighbor_Reopen(s, current, neighbor) ==
    LET neighborKey == nodeKey(neighbor[1], neighbor[2])
        tentativeGScore == JsAdd(GetOrInfinity(s.gScore, current.key), 1)
        f == JsAdd(tentativeGScore,
                   heuristic(neighbor[1], neighbor[2], s.endX, s.endY))
        existingIndex == FindIndex(s.openSet, neighborKey)
        pushed == [key |-> neighborKey, x |-> neighbor[1], y |-> neighbor[2],
                   f |-> f]
    IN  IF existingIndex = 0
        THEN IF neighborKey \in s.closedSet
             THEN [s EXCEPT !.openSet = Append(@, pushed)]
             ELSE [s EXCEPT !.openSet = Append(@, pushed),
                            !.cameFrom = Put(@, neighborKey, current.key),
                            !.gScore = Put(@, neighborKey, tentativeGScore),
                            !.fScore = Put(@, neighborKey, f)]
        ELSE s

\* the body of the loop over the neighbours of the current node
VisitNeighbor(s, current, neighbor) ==
    LET neighborKey == nodeKey(neighbor[1], neighbor[2])
        tentativeGScore == JsAdd(GetOrInfinity(s.gScore, current.key), 1)
        f == JsAdd(tentativeGScore,
                   heuristic(neighbor[1], neighbor[2], s.endX, s.endY))
        existingIndex == FindIndex(s.openSet, neighborKey)
    IN  IF neighborKey \in s.closedSet THEN s
        ELSE IF existingIndex = 0
        THEN [s EXCEPT !.openSet = Append(@, [key |-> neighborKey,
                                              x |-> neighbor[1],
                                              y |-> neighbor[2], f |-> f]),
                       !.cameFrom = Put(@, neighborKey, current.key),
                       !.gScore = Put(@, neighborKey, tentativeGScore),
                       !.fScore = Put(@, neighborKey, f)]
        ELSE IF tentativeGScore >= GetOrInfinity(s.gScore, neighborKey) THEN s
        ELSE [s EXCEPT !.openSet[existingIndex].f = f,
                       !.cameFrom = Put(@, neighborKey, current.key),
                       !.gScore = Put(@, neighborKey, tentativeGScore),
                       !.fScore = Put(@, neighborKey, f)]

RECURSIVE VisitNeighbors(_, _, _)
VisitNeighbors(s, current, neighbors) ==
    IF neighbors = <<>> THEN s
    ELSE VisitNeighbors(VisitNeighbor(s, current, Head(neighbors)),
                        current, Tail(neighbors))

\* one pass of the while loop of findPath, or the return after it
AStarStep(s) ==
    IF Len(s.openSet) = 0
    THEN [s EXCEPT !.done = TRUE, !.result = <<>>]
    ELSE LET sorted == SortByF(s.openSet)
             current == Head(sorted)
         IN  IF current.x = s.endX /\ current.y = s.endY
             THEN [s EXCEPT !.openSet = Tail(sorted), !.done = TRUE,
                            !.result = reconstructPath(s.cameFrom, current.key)]
             ELSE VisitNeighbors(
                      [s EXCEPT !.openSet = Tail(sorted),
                                !.closedSet = @ \cup {current.key}],
                      current,
                      getNeighbors(current.x, current.y, s.grid, s.w, s.h))

RECURSIVE RunSearch(_)
RunSearch(s) == IF s.done THEN s.result ELSE RunSearch(AStarStep(s))

findPath(grid, w, h, startX, startY, endX, endY) ==
    RunSearch(AStarStart(grid, w, h, startX, startY, endX, endY))

\* no findPath call is in progress
NoSearch == [done |-> TRUE, result |-> <<>>, idle |-> TRUE]

(***************************************************************************)
(* World, Building and Construction                                        *)
(***************************************************************************)
\* the world of the model is a small rectangle of tiles
WorldW == 4
WorldH == 2
\* pending setTimeout callbacks of one kind kept per settler
MaxTimers == 1
\* addResource calls made from outside the settlers' code
MaxAdds == 1
\* constructions the player places
MaxPlacements == 2

tileSize == 2

Cells == (0..(WorldW - 1)) \X (0..(WorldH - 1))

InBounds(x, y) == x >= 0 /\ x < WorldW /\ y >= 0 /\ y < WorldH

\* _addStartingBuildings: the centre of the map and the warehouse corner
startX == WorldW \div 2
startY == WorldH \div 2
warehouseX == startX - 1
warehouseY == startY - 1

\* the terrain type _initTerrain gives a tile: an input of the model
NaturalTerrain(x, y) ==
    CASE (x + y) % 3 = 0 -> "water"
      [] (x + y) % 3 = 1 -> "forest"
      [] OTHER -> "grass"

\* terrain[y][x].type: the 3x3 area around the start is forced to grass
TerrainType(x, y) ==
    IF x \in (startX - 1)..(startX + 1) /\ y \in (startY - 1)..(startY + 1)
    THEN "grass"
    ELSE NaturalTerrain(x, y)

\* the building types the placement handlers are called with
BuildingTypes == {"warehouse", "woodcutter", "stonemason"}

buildingCosts(type) ==
    CASE type = "warehouse" -> [plank |-> 20, stone |-> 10]
      [] type = "woodcutter" -> [plank |-> 5]
      [] type = "sawmill" -> [plank |-> 5, stone |-> 5]
      [] type = "stonemason" -> [plank |-> 5]

\* the keys of a requirements object in Object.entries order
Entries(requirements) ==
    SelectSeq(KeyOrder, LAMBDA k : k \in DOMAIN requirements)

BuildingSize(type) == IF type = "warehouse" THEN <<2, 2>> ELSE <<1, 1>>

\* Building._defineInteractionPoint
defineInteractionPoint(type, position, size) ==
    IF type = "warehouse"
    THEN <<position[1] + size[1] - 1, position[2] + size[2] - 1>>
    ELSE <<position[1] + size[1] \div 2, position[2] + size[2] - 1>>

\* the tiles of the map a footprint covers
Footprint(position, size) ==
    {c \in Cells : /\ c[1] >= position[1] /\ c[1] < position[1] + size[1]
                   /\ c[2] >= position[2] /\ c[2] < position[2] + size[2]}

\* new Construction(world, x, y, targetBuildingType): the Building constructor
\* runs with type 'warehouse', then the size and the interaction point are
\* set from the target type
NewConstruction(x, y, targetBuildingType) ==
    [targetBuildingType |-> targetBuildingType,
     position |-> <<x, y>>,
     size |-> BuildingSize(targetBuildingType),
     interactionPoint |->
         defineInteractionPoint("warehouse", <<x, y>>,
                                BuildingSize(targetBuildingType)),
     progress |-> 0,
     requiredResources |-> buildingCosts(targetBuildingType),
     allocatedResources |->
         [r \in DOMAIN buildingCosts(targetBuildingType) |-> 0]]

\* new Warehouse(world, x, y): the interaction point is defined by the
\* Building constructor while the size is still 1x1, the size is set after
NewWarehouse(id, x, y) ==
    [id |-> id, type |-> "warehouse", position |-> <<x, y>>,
     size |-> <<2, 2>>,
     interactionPoint |-> defineInteractionPoint("warehouse", <<x, y>>, <<1, 1>>),
     level |-> 1, isProducing |-> FALSE, productionTimer |-> 0,
     workers |-> <<>>]

\* new Woodcutter(world, x, y)
NewWoodcutter(id, x, y) ==
    [id |-> id, type |-> "woodcutter", position |-> <<x, y>>,
     size |-> <<1, 1>>,
     interactionPoint |-> defineInteractionPoint("woodcutter", <<x, y>>, <<1, 1>>),
     level |-> 1, isProducing |-> FALSE, productionTimer |-> 0,
     workers |-> <<>>]

\* new Building(world, x, y, type)
NewBuilding(id, type, x, y) ==
    [id |-> id, type |-> type, position |-> <<x, y>>,
     size |-> <<1, 1>>,
     interactionPoint |-> defineInteractionPoint(type, <<x, y>>, <<1, 1>>),
     level |-> 1, isProducing |-> FALSE, productionTimer |-> 0,
     workers |-> <<>>]

\* Construction._hasAllResources
hasAllResources(c) ==
    \A r \in DOMAIN c.requiredResources :
        c.allocatedResources[r] >= c.requiredResources[r]

\* the world as one value: the ledger, the lists, the tiles, the settlers,
\* their pending timers, the placement mode and the mouse
CurrentWorld ==
    [res |-> resources, buildings |-> buildings,
     constructions |-> constructions, objects |-> objects, tiles |-> tiles,
     settlers |-> settlers, timers |-> timers,
     placement |-> placement, mouse |-> mouse, updated |-> updated]

SetWorld(W) ==
    /\ resources' = W.res
    /\ buildings' = W.buildings
    /\ constructions' = W.constructions
    /\ objects' = W.objects
    /\ tiles' = W.tiles
    /\ settlers' = W.settlers
    /\ timers' = W.timers
    /\ placement' = W.placement
    /\ mouse' = W.mouse
    /\ updated' = W.updated

\* the id a newly created Building or Construction gets
NextId(W) == Len(W.buildings) + Cardinality(DOMAIN W.objects) + 1

Range(seq) == {seq[k] : k \in 1..Len(seq)}

\* World.addBuilding
addBuilding(W, building) ==
    [W EXCEPT !.buildings = Append(@, building),
              !.tiles = [c \in Cells |->
                            IF c \in Footprint(building.position, building.size)
                            THEN building.id ELSE @[c]]]

\* World.addConstruction
addConstruction(W, id, construction) ==
    [W EXCEPT !.constructions = Append(@, id),
              !.objects = @ @@ (id :> construction),
              !.tiles = [c \in Cells |->
                            IF c \in Footprint(construction.position,
                                               construction.size)
                            THEN id ELSE @[c]]]

\* World.completeConstruction
completeConstruction(W, id) ==
    LET construction == W.objects[id]
        removed == [W EXCEPT !.constructions =
                                 SelectSeq(@, LAMBDA c : c # id)]
        x == construction.position[1]
        y == construction.position[2]
    IN  CASE construction.targetBuildingType = "warehouse" ->
                 addBuilding(removed, NewWarehouse(NextId(removed), x, y))
          [] construction.targetBuildingType = "woodcutter" ->
                 addBuilding(removed, NewWoodcutter(NextId(removed), x, y))
          [] OTHER -> removed

\* Construction.update
ConstructionUpdate(W, id) ==
    IF W.objects[id].progress >= 100 THEN completeConstruction(W, id) ELSE W

\* the Building or Construction a tile refers to, as PathFinder reads it
Occupant(W, id) ==
    IF id \in DOMAIN W.objects
    THEN [type |-> "warehouse", position |-> W.objects[id].position,
          size |-> W.objects[id].size]
    ELSE LET b == CHOOSE b \in Range(W.buildings) : b.id = id
         IN  [type |-> b.type, position |-> b.position, size |-> b.size]

\* PathFinder._isPassable
isPassable(W, x, y) ==
    IF ~InBounds(x, y) THEN FALSE
    ELSE IF TerrainType(x, y) \in {"water", "mountain"} THEN FALSE
    ELSE IF W.tiles[<<x, y>>] # 0
    THEN LET building == Occupant(W, W.tiles[<<x, y>>])
         IN  IF building.type = "warehouse"
             THEN /\ x = building.position[1] + building.size[1] - 1
                  /\ y = building.position[2] + building.size[2] - 1
             ELSE /\ y = building.position[2] + building.size[2] - 1
                  /\ x >= building.position[1]
                  /\ x < building.position[1] + building.size[1]
    ELSE TRUE

\* PathFinder._createGrid
createGrid(W) == {c \in Cells : isPassable(W, c[1], c[2])}

(***************************************************************************)
(* Settler, Porter and Builder                                             *)
(***************************************************************************)
\* A settler's mesh is kept to the precision its grid position depends on.
\* Each axis holds 3 values per tile: 3t is the corner getWorldPosition
\* gives tile t, 3t - 1 is a point up to 0.25 before it and 3t + 1 a point
\* up to 0.25 after it.
getWorldPosition(cell) == <<3 * cell[1], 3 * cell[2]>>

\* World.getGridPosition: the floor of the mesh coordinates
getGridPosition(mesh) == <<mesh[1] \div 3, mesh[2] \div 3>>

\* where one coordinate of the mesh stops when _moveToTarget finds it less
\* than 0.25 from the target: short of the target on the side it came from
Approach(m, t) == IF m < t THEN t - 1 ELSE IF m = t THEN t ELSE t + 1

ArrivalMesh(mesh, target) ==
    <<Approach(mesh[1], getWorldPosition(target)[1]),
      Approach(mesh[2], getWorldPosition(target)[2])>>

\* new Porter(world, x, y) and new Builder(world, x, y)
NewSettler(type, x, y) ==
    [type |-> type, position |-> <<x, y>>,
     mesh |-> getWorldPosition(<<x, y>>),
     state |-> "IDLE", targetConstruction |-> 0,
     resourceToFetch |-> "none",
     carriedResource |-> "none", carriedAmount |-> 0,
     isMoving |-> FALSE, targetPosition |-> <<>>, path |-> <<>>,
     currentBuildingTime |-> 0, isBuilding |-> FALSE]

NoTimers == [idle |-> 0, fetch |-> 0, follow |-> 0, leg |-> 0]
TimerKinds == {"idle", "fetch", "follow", "leg"}

\* setTimeout(callback, delay) called by settler i
setTimeout(W, i, kind) ==
    [W EXCEPT !.timers[i][kind] = IF @ < MaxTimers THEN @ + 1 ELSE @]

\* Settler.moveTo
moveTo(W, i, cell) ==
    [W EXCEPT !.settlers[i].targetPosition = cell,
              !.settlers[i].isMoving = TRUE]

\* Settler.followPath
followPath(W, i, path) ==
    LET W1 == [W EXCEPT !.settlers[i].path = path,
                        !.settlers[i].isMoving = FALSE,
                        !.settlers[i].targetPosition = <<>>]
    IN  IF Len(path) > 0 THEN setTimeout(W1, i, "follow") ELSE W1

\* Settler._moveToTarget: the settler arrives in the call that finds it
\* less than 0.25 from the target, any earlier call only moves the mesh
moveToTarget(W, i, arrives) ==
    LET s == W.settlers[i]
        mesh == ArrivalMesh(s.mesh, s.targetPosition)
        W1 == [W EXCEPT !.settlers[i].isMoving = FALSE,
                        !.settlers[i].targetPosition = <<>>,
                        !.settlers[i].mesh = mesh,
                        !.settlers[i].position = getGridPosition(mesh)]
    IN  IF ~arrives THEN W
        ELSE IF Len(s.path) > 0 THEN setTimeout(W1, i, "leg") ELSE W1

\* the proximity tests compare the distance between the world positions of
\* two grid cells with a multiple of tileSize given in tenths
FetchRange == 21
DeliverRange == 12
BuildRange == 20

CloseEnough(a, b, tenths) ==
    100 * tileSize * tileSize
        * ((a[1] - b[1]) * (a[1] - b[1]) + (a[2] - b[2]) * (a[2] - b[2]))
      < (tileSize * tenths) * (tileSize * tenths)

Manhattan(a, b) == Abs(a[1] - b[1]) + Abs(a[2] - b[2])

\* the loop that keeps the first construction at the least distance
RECURSIVE Closest(_, _, _, _, _)
Closest(W, position, ids, closest, closestDistance) ==
    IF ids = <<>> THEN closest
    ELSE LET distance == Manhattan(position, W.objects[Head(ids)].position)
         IN  IF distance < closestDistance
             THEN Closest(W, position, Tail(ids), Head(ids), distance)
             ELSE Closest(W, position, Tail(ids), closest, closestDistance)

\* the route a settler takes to a cell it is not close to: findPath, then
\* the path if it has 1 to 10 steps, else the direct route
routeTo(W, i, goal) ==
    LET s == W.settlers[i]
        path == findPath(createGrid(W), WorldW, WorldH,
                         s.position[1], s.position[2], goal[1], goal[2])
    IN  IF Len(path) > 0
        THEN IF Len(path) > 10
             THEN moveTo(W, i, goal)
             ELSE followPath(W, i, path)
        ELSE moveTo(W, i, goal)

\* Porter._findConstructionInNeedOfResources
findConstructionInNeedOfResources(W, i) ==
    LET s == W.settlers[i]
        needy == SelectSeq(W.constructions,
                           LAMBDA id : ~hasAllResources(W.objects[id]))
        closest == IF s.targetConstruction \in Range(needy)
                   THEN s.targetConstruction
                   ELSE Closest(W, s.position, needy, 0, Infinity)
        c == W.objects[closest]
        lacking == SelectSeq(Entries(c.requiredResources),
                       LAMBDA r : c.allocatedResources[r] < c.requiredResources[r])
    IN  IF Len(needy) > 0
        THEN [W EXCEPT !.settlers[i].targetConstruction = closest,
                       !.settlers[i].resourceToFetch =
                           IF Len(lacking) > 0 THEN Head(lacking) ELSE @,
                       !.settlers[i].state = "FETCHING_RESOURCE"]
        ELSE setTimeout(W, i, "idle")

\* a fetch that takes a unit without asking the ledger whether it has one
fetchResourceFromWarehouse_NoStockCheck(W, i) ==
    LET s == W.settlers[i]
        warehouses == SelectSeq(W.buildings, LAMBDA b : b.type = "warehouse")
        warehouse == Head(warehouses)
    IN  IF Len(warehouses) = 0
        THEN [W EXCEPT !.settlers[i].state = "IDLE"]
        ELSE IF s.targetConstruction # 0
                /\ hasAllResources(W.objects[s.targetConstruction])
        THEN [W EXCEPT !.settlers[i].carriedResource = "none",
                       !.settlers[i].carriedAmount = 0,
                       !.settlers[i].state = "IDLE"]
        ELSE IF CloseEnough(s.position, warehouse.interactionPoint, FetchRange)
        THEN [W EXCEPT !.res = removeResource(@, s.resourceToFetch, 1).res,
                       !.settlers[i].carriedResource = s.resourceToFetch,
                       !.settlers[i].carriedAmount = 1,
                       !.settlers[i].state = "DELIVERING_RESOURCE",
                       !.settlers[i].targetPosition = <<>>,
                       !.settlers[i].isMoving = FALSE,
                       !.settlers[i].path = <<>>]
        ELSE moveTo(W, i, warehouse.interactionPoint)

\* Porter._fetchResourceFromWarehouse
fetchResourceFromWarehouse(W, i) ==
    LET s == W.settlers[i]
        warehouses == SelectSeq(W.buildings, LAMBDA b : b.type = "warehouse")
        warehouse == Head(warehouses)
    IN  IF Len(warehouses) = 0
        THEN [W EXCEPT !.settlers[i].state = "IDLE"]
        ELSE IF s.targetConstruction # 0
                /\ hasAllResources(W.objects[s.targetConstruction])
        THEN [W EXCEPT !.settlers[i].carriedResource = "none",
                       !.settlers[i].carriedAmount = 0,
                       !.settlers[i].state = "IDLE"]
        ELSE IF CloseEnough(s.position, warehouse.interactionPoint, FetchRange)
        THEN IF getResource(W.res, s.resourceToFetch) > 0
             THEN [W EXCEPT !.res = removeResource(@, s.resourceToFetch, 1).res,
                            !.settlers[i].carriedResource = s.resourceToFetch,
                            !.settlers[i].carriedAmount = 1,
                            !.settlers[i].state = "DELIVERING_RESOURCE",
                            !.settlers[i].targetPosition = <<>>,
                            !.settlers[i].isMoving = FALSE,
                            !.settlers[i].path = <<>>]
             ELSE setTimeout(W, i, "fetch")
        ELSE moveTo(W, i, warehouse.interactionPoint)

\* a delivery that gives the unit back to the ledger when the target is gone
deliverResourceToConstruction_Refunds(W, i) ==
    LET s == W.settlers[i]
        id == s.targetConstruction
        delivered ==
            [W EXCEPT !.objects[id].allocatedResources[s.carriedResource] =
                          @ + s.carriedAmount,
                      !.settlers[i].carriedResource = "none",
                      !.settlers[i].carriedAmount = 0,
                      !.settlers[i].targetPosition = <<>>,
                      !.settlers[i].isMoving = FALSE,
                      !.settlers[i].path = <<>>]
    IN  IF id = 0 \/ id \notin Range(W.constructions)
        THEN [W EXCEPT !.res = addResource(@, s.carriedResource,
                                           s.carriedAmount).res,
                       !.settlers[i].carriedResource = "none",
                       !.settlers[i].carriedAmount = 0,
                       !.settlers[i].state = "IDLE"]
        ELSE IF CloseEnough(s.position, W.objects[id].interactionPoint,
                            DeliverRange)
        THEN IF ~hasAllResources(delivered.objects[id])
             THEN setTimeout(
                      [delivered EXCEPT !.settlers[i].state = "FETCHING_RESOURCE"],
                      i, "fetch")
             ELSE [delivered EXCEPT !.settlers[i].targetConstruction = 0,
                                    !.settlers[i].state = "IDLE"]
        ELSE routeTo(W, i, W.objects[id].interactionPoint)

\* a delivery that leaves the target set when the construction is complete
deliverResourceToConstruction_KeepsTarget(W, i) ==
    LET s == W.settlers[i]
        id == s.targetConstruction
        delivered ==
            [W EXCEPT !.objects[id].allocatedResources[s.carriedResource] =
                          @ + s.carriedAmount,
                      !.settlers[i].carriedResource = "none",
                      !.settlers[i].carriedAmount = 0,
                      !.settlers[i].targetPosition = <<>>,
                      !.settlers[i].isMoving = FALSE,
                      !.settlers[i].path = <<>>]
    IN  IF id = 0 \/ id \notin Range(W.constructions)
        THEN [W EXCEPT !.settlers[i].carriedResource = "none",
                       !.settlers[i].carriedAmount = 0,
                       !.settlers[i].state = "IDLE"]
        ELSE IF CloseEnough(s.position, W.objects[id].interactionPoint,
                            DeliverRange)
        THEN IF ~hasAllResources(delivered.objects[id])
             THEN setTimeout(
                      [delivered EXCEPT !.settlers[i].state = "FETCHING_RESOURCE"],
                      i, "fetch")
             ELSE [delivered EXCEPT !.settlers[i].state = "IDLE"]
        ELSE routeTo(W, i, W.objects[id].interactionPoint)

\* a delivery that leaves the unit in the porter's hands when the target is
\* gone
deliverResourceToConstruction_KeepsUnit(W, i) ==
    LET s == W.settlers[i]
        id == s.targetConstruction
        delivered ==
            [W EXCEPT !.objects[id].allocatedResources[s.carriedResource] =
                          @ + s.carriedAmount,
                      !.settlers[i].carriedResource = "none",
                      !.settlers[i].carriedAmount = 0,
                      !.settlers[i].targetPosition = <<>>,
                      !.settlers[i].isMoving = FALSE,
                      !.settlers[i].path = <<>>]
    IN  IF id = 0 \/ id \notin Range(W.constructions)
        THEN [W EXCEPT !.settlers[i].state = "IDLE"]
        ELSE IF CloseEnough(s.position, W.objects[id].interactionPoint,
                            DeliverRange)
        THEN IF ~hasAllResources(delivered.objects[id])
             THEN setTimeout(
                      [delivered EXCEPT !.settlers[i].state = "FETCHING_RESOURCE"],
                      i, "fetch")
             ELSE [delivered EXCEPT !.settlers[i].targetConstruction = 0,
                                    !.settlers[i].state = "IDLE"]
        ELSE routeTo(W, i, W.objects[id].interactionPoint)

\* Porter._deliverResourceToConstruction
deliverResourceToConstruction(W, i) ==
    LET s == W.settlers[i]
        id == s.targetConstruction
        delivered ==
            [W EXCEPT !.objects[id].allocatedResources[s.carriedResource] =
                          @ + s.carriedAmount,
                      !.settlers[i].carriedResource = "none",
                      !.settlers[i].carriedAmount = 0,
                      !.settlers[i].targetPosition = <<>>,
                      !.settlers[i].isMoving = FALSE,
                      !.settlers[i].path = <<>>]
    IN  IF id = 0 \/ id \notin Range(W.constructions)
        THEN [W EXCEPT !.settlers[i].carriedResource = "none",
                       !.settlers[i].carriedAmount = 0,
                       !.settlers[i].state = "IDLE"]
        ELSE IF CloseEnough(s.position, W.objects[id].interactionPoint,
                            DeliverRange)
        THEN IF ~hasAllResources(delivered.objects[id])
             THEN setTimeout(
                      [delivered EXCEPT !.settlers[i].state = "FETCHING_RESOURCE"],
                      i, "fetch")
             ELSE [delivered EXCEPT !.settlers[i].targetConstruction = 0,
                                    !.settlers[i].state = "IDLE"]
        ELSE routeTo(W, i, W.objects[id].interactionPoint)

\* Porter.update
PorterUpdate(W, i, arrives) ==
    LET s == W.settlers[i]
    IN  IF s.isMoving /\ s.targetPosition # <<>>
        THEN moveToTarget(W, i, arrives)
        ELSE CASE s.state = "IDLE" -> findConstructionInNeedOfResources(W, i)
               [] s.state = "FETCHING_RESOURCE" ->
                      fetchResourceFromWarehouse(W, i)
               [] s.state = "DELIVERING_RESOURCE" ->
                      deliverResourceToConstruction(W, i)
               [] OTHER -> [W EXCEPT !.settlers[i].state = "IDLE",
                                     !.settlers[i].targetPosition = <<>>,
                                     !.settlers[i].isMoving = FALSE,
                                     !.settlers[i].path = <<>>]

\* the time a builder works on a construction and the time one update adds,
\* 5000 and 16.67 milliseconds, in hundredths of a millisecond
buildingTime == 500000
frameTime == 1667

\* Builder._findConstructionToBuild
findConstructionToBuild(W, i) ==
    LET s == W.settlers[i]
        readyConstructions ==
            SelectSeq(W.constructions,
                      LAMBDA id : /\ hasAllResources(W.objects[id])
                                  /\ W.objects[id].progress < 100)
    IN  IF Len(readyConstructions) > 0
        THEN [W EXCEPT !.settlers[i].targetConstruction =
                           Closest(W, s.position, readyConstructions, 0, Infinity),
                       !.settlers[i].state = "MOVING_TO_CONSTRUCTION"]
        ELSE setTimeout(W, i, "idle")

\* Builder._moveToConstruction
moveToConstruction(W, i) ==
    LET s == W.settlers[i]
        id == s.targetConstruction
    IN  IF id = 0 \/ id \notin Range(W.constructions)
        THEN [W EXCEPT !.settlers[i].targetConstruction = 0,
                       !.settlers[i].state = "IDLE"]
        ELSE IF CloseEnough(s.position, W.objects[id].interactionPoint,
                            BuildRange)
        THEN [W EXCEPT !.settlers[i].state = "BUILDING",
                       !.settlers[i].isBuilding = TRUE,
                       !.settlers[i].currentBuildingTime = 0]
        ELSE routeTo(W, i, W.objects[id].interactionPoint)

\* a building step that completes the construction whatever the time spent
performBuilding_NoTimeCheck(W, i) ==
    LET s == W.settlers[i]
        id == s.targetConstruction
    IN  IF id = 0 \/ id \notin Range(W.constructions)
        THEN [W EXCEPT !.settlers[i].isBuilding = FALSE,
                       !.settlers[i].targetConstruction = 0,
                       !.settlers[i].state = "IDLE"]
        ELSE [W EXCEPT !.settlers[i].currentBuildingTime = @ + frameTime,
                       !.settlers[i].isBuilding = FALSE,
                       !.objects[id].progress = 100,
                       !.settlers[i].targetConstruction = 0,
                       !.settlers[i].state = "IDLE"]

\* Builder._performBuilding
performBuilding(W, i) ==
    LET s == W.settlers[i]
        id == s.targetConstruction
        time == s.currentBuildingTime + frameTime
    IN  IF id = 0 \/ id \notin Range(W.constructions)
        THEN [W EXCEPT !.settlers[i].isBuilding = FALSE,
                       !.settlers[i].targetConstruction = 0,
                       !.settlers[i].state = "IDLE"]
        ELSE IF time >= buildingTime
        THEN [W EXCEPT !.settlers[i].currentBuildingTime = time,
                       !.settlers[i].isBuilding = FALSE,
                       !.objects[id].progress = 100,
                       !.settlers[i].targetConstruction = 0,
                       !.settlers[i].state = "IDLE"]
        ELSE [W EXCEPT !.settlers[i].currentBuildingTime = time]

\* Builder.update: a state other than the three below is left alone
BuilderUpdate(W, i, arrives) ==
    LET s == W.settlers[i]
    IN  IF s.isMoving /\ s.targetPosition # <<>>
        THEN moveToTarget(W, i, arrives)
        ELSE CASE s.state = "IDLE" -> findConstructionToBuild(W, i)
               [] s.state = "MOVING_TO_CONSTRUCTION" -> moveToConstruction(W, i)
               [] s.state = "BUILDING" -> performBuilding(W, i)
               [] OTHER -> W

SettlerUpdate(W, i, arrives) ==
    IF W.settlers[i].type = "porter"
    THEN PorterUpdate(W, i, arrives)
    ELSE BuilderUpdate(W, i, arrives)

(***************************************************************************)
(* Building placement                                                      *)
(***************************************************************************)
\* World.startBuildingPlacement (cancelBuildingPlacement, which it calls
\* when the mode is on, changes nothing that it does not set again)
startBuildingPlacement(W, buildingType) ==
    [W EXCEPT !.placement.buildingPlacementMode = TRUE,
              !.placement.buildingTypeToPlace = buildingType]

\* World.cancelBuildingPlacement
cancelBuildingPlacement(W) ==
    IF ~W.placement.buildingPlacementMode THEN W
    ELSE [W EXCEPT !.placement.buildingPlacementMode = FALSE,
                   !.placement.buildingTypeToPlace = "none"]

\* World._isPlacementValid, for the type being placed
isPlacementValid(W, x, y) ==
    LET type == W.placement.buildingTypeToPlace
        size == BuildingSize(type)
    IN  IF x < 0 \/ y < 0 \/ x + size[1] > WorldW \/ y + size[2] > WorldH
        THEN FALSE
        ELSE IF \E c \in Footprint(<<x, y>>, size) :
                    TerrainType(c[1], c[2]) # "grass" \/ W.tiles[c] # 0
        THEN FALSE
        ELSE hasResources(W.res, buildingCosts(type))

\* World._updatePlacementPreview: the preview mesh exists exactly while the
\* placement mode is on; the ray from the mouse hits the terrain or not
updatePlacementPreview(W) ==
    IF ~W.placement.buildingPlacementMode THEN W
    ELSE IF W.mouse = <<>> THEN W
    ELSE [W EXCEPT !.placement.placementValid =
                       isPlacementValid(W, W.mouse[1], W.mouse[2]),
                   !.placement.placementGridPosition = W.mouse]

\* World._placeBuilding past its guard: the result of consumeResources is
\* not looked at
createConstruction(W) ==
    LET p == W.placement
        x == p.placementGridPosition[1]
        y == p.placementGridPosition[2]
        paid == [W EXCEPT !.res = consumeResources(
                                      @, buildingCosts(p.buildingTypeToPlace)).res]
    IN  cancelBuildingPlacement(
            addConstruction(paid, NextId(paid),
                            NewConstruction(x, y, p.buildingTypeToPlace)))

\* World._placeBuilding
placeBuilding(W) ==
    IF ~W.placement.placementValid \/ W.placement.placementGridPosition = <<>>
    THEN W
    ELSE createConstruction(W)

\* World._onMouseMove
onMouseMove(W, cell) ==
    LET moved == [W EXCEPT !.mouse = cell]
    IN  IF W.placement.buildingPlacementMode
        THEN updatePlacementPreview(moved)
        ELSE moved

\* a click handler that places whatever position the preview stored
onClick_Unchecked(W) ==
    IF W.placement.buildingPlacementMode
    THEN IF W.placement.placementGridPosition # <<>>
         THEN createConstruction(W) ELSE W
    ELSE W

\* World._onClick, for a click whose ray hits an object of the scene; out
\* of the placement mode a click only logs or opens a panel
onClick(W) ==
    IF W.placement.buildingPlacementMode
    THEN IF W.placement.placementValid THEN placeBuilding(W) ELSE W
    ELSE W

(***************************************************************************)
(* World.update and the events                                             *)
(***************************************************************************)
\* the call entity.update() made by World.update
Called(W, kind, id) == [W EXCEPT !.updated = Append(@, <<kind, id>>)]

RECURSIVE UpdateSettlers(_, _, _)
UpdateSettlers(W, i, arrivals) ==
    IF i > Len(W.settlers) THEN W
    ELSE UpdateSettlers(
             SettlerUpdate(Called(W, "settler", i), i, i \in arrivals),
             i + 1, arrivals)

\* productionChains[type].produces, <<>> for a type that produces nothing
Produces(type) ==
    CASE type = "woodcutter" -> [type |-> "wood", rate |-> 1]
      [] type = "sawmill" -> [type |-> "plank", rate |-> 1]
      [] type = "stonemason" -> [type |-> "stone", rate |-> 1]
      [] OTHER -> <<>>

\* productionChains[type].consumes, <<>> for a type that consumes nothing
Consumes(type) ==
    CASE type = "sawmill" -> [wood |-> 1]
      [] OTHER -> <<>>

\* Building.stopProduction
stopProduction(W, k) == [W EXCEPT !.buildings[k].isProducing = FALSE]

\* Building.startProduction
startProduction(W, k) ==
    LET consumes == Consumes(W.buildings[k].type)
    IN  IF consumes # <<>> /\ ~hasResources(W.res, consumes)
        THEN W
        ELSE [W EXCEPT !.res = IF consumes # <<>>
                               THEN consumeResources(@, consumes).res
                               ELSE @,
                       !.buildings[k].isProducing = TRUE]

\* a production that adds the rate whatever the level of the building
produce_IgnoresLevel(W, k) ==
    LET b == W.buildings[k]
        consumes == Consumes(b.type)
        added == [W EXCEPT !.res = addResource(@, Produces(b.type).type,
                                               Produces(b.type).rate).res]
    IN  IF Produces(b.type) = <<>> THEN W
        ELSE IF consumes = <<>> THEN added
        ELSE IF hasResources(added.res, consumes)
        THEN [added EXCEPT !.res = consumeResources(@, consumes).res]
        ELSE stopProduction(added, k)

\* Building._produce
produce(W, k) ==
    LET b == W.buildings[k]
        consumes == Consumes(b.type)
        added == [W EXCEPT !.res = addResource(@, Produces(b.type).type,
                                               Produces(b.type).rate
                                                   * b.level).res]
    IN  IF Produces(b.type) = <<>> THEN W
        ELSE IF consumes = <<>> THEN added
        ELSE IF hasResources(added.res, consumes)
        THEN [added EXCEPT !.res = consumeResources(@, consumes).res]
        ELSE stopProduction(added, k)

\* the time a building takes to produce, 5000 milliseconds, in hundredths
\* of a millisecond
productionTime == 500000

\* the highest level of a building
maxLevel == 3

\* the upgradeCost of a building at its level
upgradeCost(b) ==
    IF b.type = "warehouse"
    THEN [plank |-> 20 * b.level, stone |-> 10 * b.level]
    ELSE [plank |-> 10 * b.level, stone |-> 5 * b.level]

\* Building.upgrade
upgrade(W, k) ==
    IF W.buildings[k].level >= maxLevel THEN W
    ELSE [W EXCEPT !.buildings[k].level = @ + 1]

\* Building.assignWorker
assignWorker(W, k, worker) ==
    LET pushed == [W EXCEPT !.buildings[k].workers = Append(@, worker)]
    IN  IF Len(pushed.buildings[k].workers) > 0
           /\ Produces(W.buildings[k].type) # <<>>
        THEN startProduction(pushed, k)
        ELSE pushed

\* Building.removeWorker
removeWorker(W, k, worker) ==
    LET left == [W EXCEPT !.buildings[k].workers =
                              SelectSeq(@, LAMBDA w : w # worker)]
    IN  IF Len(left.buildings[k].workers) = 0
        THEN stopProduction(left, k)
        ELSE left

\* UIManager._upgradeBuilding
upgradeBuilding(W, k) ==
    IF hasResources(W.res, upgradeCost(W.buildings[k]))
    THEN upgrade([W EXCEPT !.res = consumeResources(
                                       @, upgradeCost(W.buildings[k])).res],
                 k)
    ELSE W

\* Building.update, and Warehouse.update, which does nothing
BuildingUpdate(W, k) ==
    LET b == W.buildings[k]
        timer == b.productionTimer + frameTime
    IN  IF b.type = "warehouse" THEN W
        ELSE IF ~b.isProducing \/ Produces(b.type) = <<>> THEN W
        ELSE IF timer >= productionTime
        THEN produce([W EXCEPT !.buildings[k].productionTimer = 0], k)
        ELSE [W EXCEPT !.buildings[k].productionTimer = timer]

\* for (const building of this.buildings): the loop runs over the list
\* itself, to which addBuilding pushes
RECURSIVE UpdateBuildings(_, _)
UpdateBuildings(W, k) ==
    IF k > Len(W.buildings) THEN W
    ELSE UpdateBuildings(
             BuildingUpdate(Called(W, "building", W.buildings[k].id), k),
             k + 1)

\* for (const construction of this.constructions): the loop runs over the
\* list as it was when the loop began
RECURSIVE UpdateConstructions(_, _)
UpdateConstructions(W, ids) ==
    IF ids = <<>> THEN W
    ELSE UpdateConstructions(
             ConstructionUpdate(Called(W, "construction", Head(ids)), Head(ids)),
             Tail(ids))

\* a tick that updates the constructions before the buildings
WorldUpdate_BuildingsLast(W, arrivals) ==
    LET W1 == UpdateSettlers([W EXCEPT !.updated = <<>>], 1, arrivals)
        W2 == UpdateConstructions(W1, W1.constructions)
        W3 == UpdateBuildings(W2, 1)
    IN  updatePlacementPreview(W3)

\* World.update: the settlers, the buildings, the constructions, the
\* preview
WorldUpdate(W, arrivals) ==
    LET W1 == UpdateSettlers([W EXCEPT !.updated = <<>>], 1, arrivals)
        W2 == UpdateBuildings(W1, 1)
        W3 == UpdateConstructions(W2, W2.constructions)
    IN  updatePlacementPreview(W3)

\* the settlers whose update calls _moveToTarget
Moving(W) ==
    {i \in 1..Len(W.settlers) :
        W.settlers[i].isMoving /\ W.settlers[i].targetPosition # <<>>}

\* the condition under which the callback of a timer does something
TimerGuard(s, kind) ==
    CASE kind = "idle" -> s.state = "IDLE"
      [] kind = "fetch" -> s.state = "FETCHING_RESOURCE"
      [] kind = "follow" -> Len(s.path) > 0
      [] kind = "leg" -> ~s.isMoving /\ Len(s.path) > 0

\* the callbacks given to setTimeout
TimerCallback(W, i, kind) ==
    LET s == W.settlers[i]
    IN  IF ~TimerGuard(s, kind) THEN W
        ELSE CASE kind = "idle" ->
                      IF s.type = "porter"
                      THEN findConstructionInNeedOfResources(W, i)
                      ELSE findConstructionToBuild(W, i)
               [] kind = "fetch" -> fetchResourceFromWarehouse(W, i)
               [] OTHER -> moveTo([W EXCEPT !.settlers[i].path = Tail(@)],
                                  i, Head(s.path))

\* a callback that runs while the settler is on its way finds the mesh
\* between the point it left and the point it would stop at: the model
\* takes one of the two
Interrupted(W, i, near) ==
    LET s == W.settlers[i]
    IN  IF near
        THEN [W EXCEPT !.settlers[i].mesh =
                           ArrivalMesh(s.mesh, s.targetPosition)]
        ELSE W

UnchangedByWorld == UNCHANGED <<ret, lastOp, listeners, notified, pf>>

Tick ==
    /\ \E arrivals \in SUBSET Moving(CurrentWorld) :
           SetWorld(WorldUpdate(CurrentWorld, arrivals))
    /\ UNCHANGED adds
    /\ UnchangedByWorld

TimerFire ==
    /\ \E i \in 1..Len(settlers), kind \in TimerKinds, near \in BOOLEAN :
           /\ timers[i][kind] > 0
           /\ near => /\ i \in Moving(CurrentWorld)
                      /\ TimerGuard(settlers[i], kind)
           /\ SetWorld(TimerCallback(
                  Interrupted([CurrentWorld EXCEPT !.timers[i][kind] = @ - 1],
                              i, near),
                  i, kind))
    /\ UNCHANGED adds
    /\ UnchangedByWorld

\* addResource called by code other than the settlers' (a producing
\* building, the user interface)
AddResourceExternal ==
    /\ adds < MaxAdds
    /\ \E type \in {"plank", "stone"} :
           SetWorld([CurrentWorld EXCEPT !.res = addResource(@, type, 1).res])
    /\ adds' = adds + 1
    /\ UnchangedByWorld

StartBuildingPlacement ==
    /\ Cardinality(DOMAIN objects) < MaxPlacements
    /\ \E buildingType \in BuildingTypes :
           SetWorld(startBuildingPlacement(CurrentWorld, buildingType))
    /\ UNCHANGED adds
    /\ UnchangedByWorld

\* a mouse move out of the placement mode only stores the pointer, which
\* the next move in the mode overwrites: the pointer moves in the mode
MouseMove ==
    /\ placement.buildingPlacementMode
    /\ \E cell \in Cells \cup {<<>>} :
           SetWorld(onMouseMove(CurrentWorld, cell))
    /\ UNCHANGED adds
    /\ UnchangedByWorld

Click ==
    /\ SetWorld(onClick(CurrentWorld))
    /\ UNCHANGED adds
    /\ UnchangedByWorld

\* UIManager.selectBuildingToBuild, the handler of a click on an item of
\* the build menu; the same click event then reaches World._onClick, whose
\* ray hits an object of the scene or not
selectBuildingToBuild(W, buildingType, hit) ==
    IF ~hasResources(W.res, buildingCosts(buildingType))
    THEN W
    ELSE IF hit
         THEN onClick(startBuildingPlacement(W, buildingType))
         ELSE startBuildingPlacement(W, buildingType)

\* UIManager.availableBuildings
availableBuildings == {"woodcutter"}

SelectBuildingToBuild ==
    /\ Cardinality(DOMAIN objects) < MaxPlacements
    /\ \E buildingType \in availableBuildings, hit \in BOOLEAN :
           SetWorld(selectBuildingToBuild(CurrentWorld, buildingType, hit))
    /\ UNCHANGED adds
    /\ UnchangedByWorld

\* the Escape key handler of the user interface
CancelBuildingPlacement ==
    /\ placement.buildingPlacementMode
    /\ SetWorld(cancelBuildingPlacement(CurrentWorld))
    /\ UNCHANGED adds
    /\ UnchangedByWorld

(***************************************************************************)
(* The world after World.init                                              *)
(***************************************************************************)
\* World._addStartingSettlers: a settler is added for each offset pair that
\* Math.random gives if the cell is on the map
RECURSIVE addSettlers(_, _, _)
addSettlers(W, type, offsets) ==
    IF offsets = <<>> THEN W
    ELSE LET x == warehouseX + Head(offsets)[1]
             y == warehouseY + Head(offsets)[2]
         IN  IF InBounds(x, y)
             THEN addSettlers(
                      [W EXCEPT !.settlers = Append(@, NewSettler(type, x, y)),
                                !.timers = Append(@, NoTimers)],
                      type, Tail(offsets))
             ELSE addSettlers(W, type, Tail(offsets))

\* the World constructor, then _addStartingBuildings; the offsets are the
\* values Math.random gives _addStartingSettlers, and an offset that puts
\* a settler off the map leaves it out
NewWorld(porterOffsets, builderOffsets) ==
    LET empty == [res |-> InitialResources,
                  buildings |-> <<>>, constructions |-> <<>>,
                  objects |-> <<>>, tiles |-> [c \in Cells |-> 0],
                  settlers |-> <<>>, timers |-> <<>>,
                  placement |-> [buildingPlacementMode |-> FALSE,
                                 buildingTypeToPlace |-> "none",
                                 placementValid |-> FALSE,
                                 placementGridPosition |-> <<>>],
                  mouse |-> <<warehouseX, warehouseY>>,
                  updated |-> <<>>]
        housed == addBuilding(empty, NewWarehouse(1, warehouseX, warehouseY))
    IN  addSettlers(addSettlers(housed, "porter", porterOffsets),
                    "builder", builderOffsets)

WorldIs(W) ==
    /\ resources = W.res
    /\ buildings = W.buildings
    /\ constructions = W.constructions
    /\ objects = W.objects
    /\ tiles = W.tiles
    /\ settlers = W.settlers
    /\ timers = W.timers
    /\ placement = W.placement
    /\ mouse = W.mouse
    /\ updated = W.updated
    /\ adds = 0

(***************************************************************************)
(* Specifications                                                          *)
(***************************************************************************)
PathCells == (0..(PathW - 1)) \X (0..(PathH - 1))

PathGrids == {PathCells \ walls : walls \in
                 {ws \in SUBSET PathCells : Cardinality(ws) <= MaxWalls}}

PathInit ==
    /\ LedgerFresh
    /\ WorldIs(NewWorld(<<>>, <<>>))
    /\ \E grid \in PathGrids, start \in PathCells, goal \in PathCells :
          pf = AStarStart(grid, PathW, PathH,
                          start[1], start[2], goal[1], goal[2])

PathStep ==
    /\ ~pf.done
    /\ pf' = AStarStep(pf)
    /\ UNCHANGED <<ledgerVars, worldVars>>

PathNext == PathStep

SpecPath == PathInit /\ [][PathNext]_vars

(***************************************************************************)
(* The ledger on its own: any sequence of calls                            *)
(***************************************************************************)
LedgerInit == LedgerFresh /\ pf = NoSearch /\ WorldIs(NewWorld(<<>>, <<>>))

LedgerNext == LedgerAdd \/ LedgerRemove \/ LedgerConsume \/ LedgerConsumeAll

SpecLedger == LedgerInit /\ [][LedgerNext]_vars

(***************************************************************************)
(* The placement events alone, on a map whose settlers all fell off it      *)
(***************************************************************************)
PlaceInit ==
    /\ LedgerFresh
    /\ pf = NoSearch
    /\ WorldIs(NewWorld(<< <<0, -1>>, <<0, -1>>, <<0, -1>> >>,
                        << <<0, -1>>, <<0, -1>> >>))

PlaceNext ==
    \/ StartBuildingPlacement
    \/ SelectBuildingToBuild
    \/ CancelBuildingPlacement
    \/ MouseMove
    \/ Click
    \/ Tick

SpecPlace == PlaceInit /\ [][PlaceNext]_vars

(***************************************************************************)
(* The settlers at work on one construction the player has placed          *)
(***************************************************************************)
\* the world once the player has started a placement, moved the mouse to a
\* cell and clicked
Placed(W, buildingType, cell) ==
    onClick(onMouseMove(startBuildingPlacement(W, buildingType), cell))

\* two porters, at the entry of the warehouse and left of it, one builder
\* at the top right tile of the warehouse, and a 1x1 construction right of
\* the entry of the warehouse
Init ==
    /\ NoCalls
    /\ pf = NoSearch
    /\ \E buildingType \in {"woodcutter", "stonemason"} :
           WorldIs(Placed(NewWorld(<< <<0, 1>>, <<1, 1>>, <<0, -1>> >>,
                                   << <<1, 0>>, <<0, -1>> >>),
                          buildingType, <<warehouseX + 2, warehouseY + 1>>))

Next == Tick \/ TimerFire

Spec == Init /\ [][Next]_vars

(***************************************************************************)
(* The porters supplying one construction while the ledger is added to     *)
(***************************************************************************)
\* two porters as above, no builder, and the construction of a woodcutter
\* (planks) or of a sawmill (planks and stones)
SupplyInit ==
    /\ NoCalls
    /\ pf = NoSearch
    /\ \E buildingType \in {"woodcutter", "sawmill"} :
           WorldIs(Placed(NewWorld(<< <<0, 1>>, <<1, 1>>, <<0, -1>> >>,
                                   << <<0, -1>>, <<0, -1>> >>),
                          buildingType, <<warehouseX + 2, warehouseY + 1>>))

SupplyNext == Tick \/ TimerFire \/ AddResourceExternal

SpecSupply == SupplyInit /\ [][SupplyNext]_vars

(***************************************************************************)
(* The porters and the builder at work while the ledger is added to        *)
(***************************************************************************)
\* the two porters and the builder of Init, and the construction of a woodcutter
RestockInit ==
    /\ NoCalls
    /\ pf = NoSearch
    /\ WorldIs(Placed(NewWorld(<< <<0, 1>>, <<1, 1>>, <<0, -1>> >>,
                               << <<1, 0>>, <<0, -1>> >>),
                      "woodcutter", <<warehouseX + 2, warehouseY + 1>>))

RestockNext == Tick \/ TimerFire \/ AddResourceExternal

SpecRestock == RestockInit /\ [][RestockNext]_vars

(***************************************************************************)
(* A building at production                                                *)
(***************************************************************************)
\* the largest count of wood the ledger starts with
MaxWood == 2
\* the largest number of workers of a building
MaxWorkers == 2
\* no tick is taken once the count of wood is above the cap
MaxProduced == 3

\* the building types the production is modelled for
ProductionTypes == {"woodcutter", "sawmill"}

\* a world without settlers, a ledger that also counts the wood, and one
\* production building right of the warehouse
ProduceInit ==
    /\ NoCalls
    /\ pf = NoSearch
    /\ \E type \in ProductionTypes, wood \in 0..MaxWood :
           LET W == NewWorld(<< <<0, -1>>, <<0, -1>>, <<0, -1>> >>,
                             << <<0, -1>>, <<0, -1>> >>)
               made == IF type = "woodcutter"
                       THEN NewWoodcutter(2, warehouseX + 2, warehouseY)
                       ELSE NewBuilding(2, type, warehouseX + 2, warehouseY)
           IN  WorldIs(addBuilding([W EXCEPT !.res = @ @@ ("wood" :> wood)],
                                   made))

ProduceTick ==
    /\ resources["wood"] <= MaxProduced
    /\ Tick

\* the buildings the workers are assigned to: those that produce
Workplaces == {k \in 1..Len(buildings) : Produces(buildings[k].type) # <<>>}

AssignWorker ==
    /\ \E k \in Workplaces, worker \in 1..MaxWorkers :
           /\ worker \notin Range(buildings[k].workers)
           /\ SetWorld(assignWorker(CurrentWorld, k, worker))
    /\ UNCHANGED adds
    /\ UnchangedByWorld

RemoveWorker ==
    /\ \E k \in Workplaces, worker \in 1..MaxWorkers :
           /\ worker \in Range(buildings[k].workers)
           /\ SetWorld(removeWorker(CurrentWorld, k, worker))
    /\ UNCHANGED adds
    /\ UnchangedByWorld

UpgradeBuilding ==
    /\ \E k \in 1..Len(buildings) :
           SetWorld(upgradeBuilding(CurrentWorld, k))
    /\ UNCHANGED adds
    /\ UnchangedByWorld

ProduceNext == ProduceTick \/ AssignWorker \/ RemoveWorker \/ UpgradeBuilding

SpecProduce == ProduceInit /\ [][ProduceNext]_vars

(***************************************************************************)
(* A settler whose state field holds a value its switch does not list      *)
(***************************************************************************)
\* the states the update of a settler of the type has a case for
DefinedStates(type) ==
    IF type = "porter"
    THEN {"IDLE", "FETCHING_RESOURCE", "DELIVERING_RESOURCE"}
    ELSE {"IDLE", "MOVING_TO_CONSTRUCTION", "BUILDING"}

\* the values the state field is set to from outside the settler's code
StateValues ==
    DefinedStates("porter") \cup DefinedStates("builder") \cup {"LOST"}

\* the settlers and the construction of RestockInit, the state field of
\* one settler holding a value that is not one of its states
StrayInit ==
    /\ NoCalls
    /\ pf = NoSearch
    /\ LET W == Placed(NewWorld(<< <<0, 1>>, <<1, 1>>, <<0, -1>> >>,
                                << <<1, 0>>, <<0, -1>> >>),
                       "woodcutter", <<warehouseX + 2, warehouseY + 1>>)
       IN  \E i \in 1..Len(W.settlers) :
               \E value \in StateValues \ DefinedStates(W.settlers[i].type) :
                   WorldIs([W EXCEPT !.settlers[i].state = value])

SpecStray == StrayInit /\ [][Next]_vars

(***************************************************************************)
(* The porters with two constructions to supply                            *)
(***************************************************************************)
\* the offsets Math.random gives the porters of this world
SiteOffsets == {<<1, 0>>, <<0, 1>>, <<1, 1>>}

\* two porters on tiles of the warehouse, and two constructions of
\* woodcutters right of the warehouse, placed in either order
SitesInit ==
    /\ NoCalls
    /\ pf = NoSearch
    /\ \E first, second \in {<<warehouseX + 2, warehouseY>>,
                             <<warehouseX + 2, warehouseY + 1>>} :
           \E o1, o2 \in SiteOffsets :
               /\ first # second
               /\ WorldIs(Placed(Placed(NewWorld(<<o1, o2, <<0, -1>> >>,
                                                 << <<0, -1>>, <<0, -1>> >>),
                                        "woodcutter", first),
                                 "woodcutter", second))

SpecSites == SitesInit /\ [][SupplyNext]_vars

(***************************************************************************)
(* A builder that has to walk to the construction                          *)
(***************************************************************************)
\* one porter at the entry of the warehouse, one builder on the bottom left
\* tile of the warehouse, and the construction of a woodcutter right of the
\* top right tile of the warehouse, out of the builder's range
WalkInit ==
    /\ NoCalls
    /\ pf = NoSearch
    /\ WorldIs(Placed(NewWorld(<< <<1, 1>>, <<0, -1>>, <<0, -1>> >>,
                               << <<0, 1>>, <<0, -1>> >>),
                      "woodcutter", <<warehouseX + 2, warehouseY>>))

SpecWalk == WalkInit /\ [][Next]_vars

(***************************************************************************)
(* Fair ticking                                                            *)
(***************************************************************************)
\* some World.update changes the state
TickChanges ==
    \E arrivals \in SUBSET Moving(CurrentWorld) :
        WorldUpdate(CurrentWorld, arrivals) # CurrentWorld

\* the most settlers a world of the model starts with
MaxSettlers == 3

\* settler i is not on its way
Halted(i) == i \in 1..Len(settlers) => i \notin Moving(CurrentWorld)

\* the callback of a pending timer of settler i runs
Fire(i, kind) ==
    /\ i \in 1..Len(settlers)
    /\ timers[i][kind] > 0
    /\ \E near \in BOOLEAN :
           /\ near => /\ i \in Moving(CurrentWorld)
                      /\ TimerGuard(settlers[i], kind)
           /\ SetWorld(TimerCallback(
                  Interrupted([CurrentWorld EXCEPT !.timers[i][kind] = @ - 1],
                              i, near),
                  i, kind))
    /\ UNCHANGED adds
    /\ UnchangedByWorld

\* Weak fairness of the steps the browser takes.  requestAnimationFrame
\* keeps calling World.update: weak fairness of Tick, written with its
\* enabling condition, TickChanges, since a tick is enabled exactly when
\* some update changes the state.  A moving settler gains 0.05 on its
\* target in each update, so the update that finds it arrived comes: an
\* arrival ends the movement, so the settler is again and again not on its
\* way.  The callback of a pending 50 ms or 100 ms timer runs: weak
\* fairness of Fire for the timers of followPath, of _moveToTarget and of
\* the porter's fetch.  The 2000 ms retries of an idle settler only repeat
\* what its update does in every tick, and nothing is assumed of them.
Fairness ==
    /\ []<>(~TickChanges) \/ []<><<Tick>>_vars
    /\ \A i \in 1..MaxSettlers : []<>Halted(i)
    /\ \A i \in 1..MaxSettlers :
           \A kind \in {"follow", "leg", "fetch"} : WF_vars(Fire(i, kind))

\* the builder that has to walk, under fair ticking
FairWalk == WalkInit /\ [][Next]_vars /\ Fairness

\* the settlers at work on one construction, under fair ticking
FairSpec == Init /\ [][Next]_vars /\ Fairness

\* the porters supplying one construction, under fair ticking
FairSupply == SupplyInit /\ [][SupplyNext]_vars /\ Fairness

(***************************************************************************)
(* The ledger and its listeners                                            *)
(***************************************************************************)
\* the resource types the calls of this specification name: one the ledger
\* starts with and one it starts without
ListenTypes == {"plank", "iron_ore"}

ListenAdd ==
    \E type \in ListenTypes, amount \in Amounts :
        AddResourceCall(type, amount) /\ UNCHANGED <<pathVars, worldVars>>
ListenRemove ==
    \E type \in ListenTypes, amount \in Amounts :
        RemoveResourceCall(type, amount) /\ UNCHANGED <<pathVars, worldVars>>
ListenConsumeAll ==
    \E requirements \in UNION {[D -> Amounts] : D \in SUBSET ListenTypes} :
        ConsumeResourcesCall(requirements) /\ UNCHANGED <<pathVars, worldVars>>
ListenAddListener ==
    \E callback \in Callbacks :
        AddListenerCall(callback) /\ UNCHANGED <<pathVars, worldVars>>
ListenRemoveListener ==
    \E callback \in Callbacks :
        RemoveListenerCall(callback) /\ UNCHANGED <<pathVars, worldVars>>

ListenInit == LedgerFresh /\ pf = NoSearch /\ WorldIs(NewWorld(<<>>, <<>>))

ListenNext ==
    \/ ListenAdd
    \/ ListenRemove
    \/ ListenConsumeAll
    \/ ListenAddListener
    \/ ListenRemoveListener

SpecListen == ListenInit /\ [][ListenNext]_vars

(***************************************************************************)
(* Claims about the ledger                                                 *)
(***************************************************************************)
\* C1: whatever sequence of addResource, removeResource, consumeResource and
\* consumeResources calls with non-negative amounts is made, no resource
\* count is ever negative.
C1_LedgerNeverNegative == \A type \in ResourceTypes : getResource(resources, type) >= 0

\* a removal of more than is held was attempted and refused at count 0
C1_Witness ==
    /\ lastOp \in {"removeResource", "consumeResource"}
    /\ ret = FALSE
    /\ resources["plank"] = 0

\* the scenario of the specification: plank=10, consume 5, then try 6
C2_Scenario ==
    LET r0 == [InitialResources EXCEPT !["plank"] = 10]
        c1 == consumeResources(r0, "plank" :> 5)
        c2 == consumeResources(c1.res, "plank" :> 6)
    IN  /\ c1.ok /\ c1.res["plank"] = 5
        /\ ~c2.ok /\ c2.res = c1.res

\* C2: consumeResources either takes every listed amount and returns true, or
\* changes nothing and returns false; it returns true exactly when
\* hasResources held before the call.
C2_ConsumeAllOrNothing ==
    /\ []C2_Scenario
    /\ [][\A requirements \in Requirements :
            ConsumeResourcesCall(requirements) =>
                /\ ret' = hasResources(resources, requirements)
                /\ ret' = TRUE =>
                      \A t \in ResourceTypes :
                          resources'[t] = resources[t] -
                              (IF t \in DOMAIN requirements
                               THEN requirements[t] ELSE 0)
                /\ ret' = FALSE => resources' = resources]_vars

\* a consumeResources call was refused while one of the two cost types was
\* in stock and the other was not
C2_Witness ==
    /\ lastOp = "consumeResources"
    /\ ret = FALSE
    /\ resources["plank"] > 0
    /\ resources["stone"] = 0

(***************************************************************************)
(* Claims about constructions, placement and the settlers                  *)
(***************************************************************************)
\* C3: in every reachable state, for every construction and every resource
\* it requires, the allocated amount is at most the required amount
C3_AllocatedWithinRequired ==
    \A id \in DOMAIN objects :
        \A r \in DOMAIN objects[id].requiredResources :
            objects[id].allocatedResources[r]
                <= objects[id].requiredResources[r]

\* two porters have each fetched a plank for a construction one plank short
C3_Witness ==
    \E id \in DOMAIN objects, i, j \in 1..Len(settlers) :
        /\ i # j
        /\ settlers[i].carriedAmount = 1 /\ settlers[j].carriedAmount = 1
        /\ settlers[i].targetConstruction = id
        /\ settlers[j].targetConstruction = id
        /\ objects[id].allocatedResources["plank"] + 1
               = objects[id].requiredResources["plank"]

\* C4: a construction whose progress has reached 100 is, once the tick is
\* over, out of the list of constructions, and a building of its target
\* type stands at its position; this for every type a construction can be
\* placed for
C4_CompletedIsReplaced ==
    \A id \in DOMAIN objects :
        objects[id].progress >= 100 =>
            /\ id \notin Range(constructions)
            /\ \E k \in 1..Len(buildings) :
                   /\ buildings[k].type = objects[id].targetBuildingType
                   /\ buildings[k].position = objects[id].position

\* a woodcutter's construction has been completed and replaced
C4_Witness ==
    \E id \in DOMAIN objects :
        /\ objects[id].progress >= 100
        /\ objects[id].targetBuildingType = "woodcutter"
        /\ id \notin Range(constructions)
        /\ \E k \in 1..Len(buildings) :
               /\ buildings[k].type = "woodcutter"
               /\ buildings[k].position = objects[id].position

\* C5: the progress of a construction is 0 or 100; it changes only from 0
\* to 100, and only in a step in which a builder in the building state
\* targets it, it is in the list of constructions, all its resources are
\* allocated and the builder's accumulated time reaches the building time
C5_ProgressOnlyByBuilder ==
    /\ [](\A id \in DOMAIN objects : objects[id].progress \in {0, 100})
    /\ [][\A id \in DOMAIN objects :
              objects'[id].progress # objects[id].progress =>
                  /\ objects[id].progress = 0
                  /\ objects'[id].progress = 100
                  /\ \E i \in 1..Len(settlers) :
                         /\ settlers[i].type = "builder"
                         /\ settlers[i].state = "BUILDING"
                         /\ settlers[i].targetConstruction = id
                         /\ i \notin Moving(CurrentWorld)
                         /\ id \in Range(constructions)
                         /\ hasAllResources(objects[id])
                         /\ settlers[i].currentBuildingTime + frameTime
                                >= buildingTime
                         /\ settlers'[i].currentBuildingTime >= buildingTime
          ]_vars

\* a builder has spent the building time on a construction, now at 100
C5_Witness ==
    \E id \in DOMAIN objects, i \in 1..Len(settlers) :
        /\ objects[id].progress = 100
        /\ settlers[i].type = "builder"
        /\ settlers[i].currentBuildingTime >= buildingTime
        /\ settlers[i].state = "IDLE"

\* C6: a step that creates a construction starts from a state in which the
\* footprint is in bounds, on grass and unoccupied and the ledger covers
\* the cost, and the step takes exactly the cost from the ledger
C6_PlacementChecked ==
    [][\A id \in DOMAIN objects' \ DOMAIN objects :
           LET c == objects'[id]
               cost == buildingCosts(c.targetBuildingType)
           IN  /\ c.position[1] >= 0 /\ c.position[2] >= 0
               /\ c.position[1] + c.size[1] <= WorldW
               /\ c.position[2] + c.size[2] <= WorldH
               /\ \A t \in Footprint(c.position, c.size) :
                      TerrainType(t[1], t[2]) = "grass" /\ tiles[t] = 0
               /\ hasResources(resources, cost)
               /\ resources' = consumeResources(resources, cost).res
      ]_vars

\* a construction stands on the map and its cost is gone from the ledger
C6_Witness ==
    \E id \in DOMAIN objects :
        /\ id \in Range(constructions)
        /\ \A t \in Footprint(objects[id].position, objects[id].size) :
               tiles[t] = id
        /\ resources = consumeResources(
               InitialResources,
               buildingCosts(objects[id].targetBuildingType)).res

\* a building of the type cannot be placed with its corner on the cell: the
\* footprint leaves the map or holds a tile that is not grass or is
\* occupied, or the ledger does not cover the cost
Unplaceable(buildingType, cell) ==
    LET size == BuildingSize(buildingType)
    IN  IF cell[1] + size[1] > WorldW \/ cell[2] + size[2] > WorldH
        THEN TRUE
        ELSE \/ \E t \in Footprint(cell, size) :
                   TerrainType(t[1], t[2]) # "grass" \/ tiles[t] # 0
             \/ ~hasResources(resources, buildingCosts(buildingType))

\* C7: a click on a placement that the preview holds invalid changes neither
\* the ledger, nor the constructions, nor the occupancy of the tiles; and
\* the preview holds a placement invalid whenever its footprint is out of
\* bounds, off grass or occupied, or the ledger does not cover the cost
C7_RejectedPlacementChangesNothing ==
    [][/\ (~placement.placementValid
              \/ placement.placementGridPosition = <<>>)
          => UNCHANGED <<resources, constructions, objects, tiles>>
       /\ (/\ placement.buildingPlacementMode
           /\ mouse' \in Cells
           /\ Unplaceable(placement.buildingTypeToPlace, mouse')
           /\ UNCHANGED <<resources, buildings, constructions, objects,
                          tiles, settlers, timers, updated>>
           /\ placement' = onMouseMove(CurrentWorld, mouse').placement)
          => /\ ~placement'.placementValid
             /\ UNCHANGED <<resources, constructions, objects, tiles>>
      ]_vars

\* the preview stands on the tile of a construction and is held invalid
C7_Witness ==
    /\ placement.buildingPlacementMode
    /\ ~placement.placementValid
    /\ placement.placementGridPosition # <<>>
    /\ tiles[placement.placementGridPosition] # 0
    /\ tiles[placement.placementGridPosition] \in Range(constructions)

\* the world as settler i finds it when its turn comes in a tick
RECURSIVE TurnOf(_, _, _, _)
TurnOf(W, k, i, arrivals) ==
    IF k >= i THEN W
    ELSE TurnOf(SettlerUpdate(W, k, k \in arrivals), k + 1, i, arrivals)

\* porter i is about to try a pickup: it is fetching, within range of the
\* warehouse, and its target still lacks resources
FetchAttempt(W, i) ==
    LET s == W.settlers[i]
    IN  /\ s.type = "porter"
        /\ s.state = "FETCHING_RESOURCE"
        /\ \E k \in 1..Len(W.buildings) : W.buildings[k].type = "warehouse"
        /\ CloseEnough(s.position,
                       Head(SelectSeq(W.buildings,
                           LAMBDA b : b.type = "warehouse")).interactionPoint,
                       FetchRange)
        /\ s.targetConstruction # 0
        /\ ~hasAllResources(W.objects[s.targetConstruction])

\* what the attempt of porter i makes of world W
FetchOutcome(W, W2, i) ==
    LET r == W.settlers[i].resourceToFetch
    IN  IF getResource(W.res, r) = 0
        THEN /\ W2.settlers[i].state = "FETCHING_RESOURCE"
             /\ W2.settlers[i].carriedAmount = 0
             /\ W2.settlers[i].carriedResource = "none"
             /\ W2.res = W.res
        ELSE /\ W2.res = [W.res EXCEPT ![r] = @ - 1]
             /\ W2.settlers[i].state = "DELIVERING_RESOURCE"
             /\ W2.settlers[i].carriedAmount = 1
             /\ W2.settlers[i].carriedResource = r

\* C8: a fetching porter within range of the warehouse whose target lacks
\* resources stays fetching, empty-handed, and leaves the ledger alone when
\* the ledger has none of its resource; when the ledger has at least one
\* unit the attempt takes exactly one and the porter is delivering it.
\* The attempt is made by the retry timer and by the porter's own update.
C8_FetchRetriesThenPicksUp ==
    [][/\ \A i \in 1..Len(settlers), near \in BOOLEAN :
              (/\ timers[i]["fetch"] > 0
               /\ near => i \in Moving(CurrentWorld)
               /\ SetWorld(TimerCallback(
                      Interrupted([CurrentWorld EXCEPT
                                       !.timers[i]["fetch"] = @ - 1],
                                  i, near),
                      i, "fetch"))
               /\ FetchAttempt(CurrentWorld, i))
              => FetchOutcome(CurrentWorld, CurrentWorld', i)
       /\ \A arrivals \in SUBSET Moving(CurrentWorld) :
              SetWorld(WorldUpdate(CurrentWorld, arrivals)) =>
                  \A i \in 1..Len(settlers) \ Moving(CurrentWorld) :
                      LET before == TurnOf(CurrentWorld, 1, i, arrivals)
                          after == SettlerUpdate(before, i, FALSE)
                      IN  FetchAttempt(before, i) =>
                              /\ FetchOutcome(before, after, i)
                              /\ settlers'[i] = after.settlers[i]
      ]_vars

\* one porter carries the plank that was added to the ledger while the
\* other waits at the warehouse for the ledger, now empty, to be filled
C8_Witness ==
    \E i, j \in 1..Len(settlers) :
        /\ adds > 0
        /\ getResource(resources, "plank") = 0
        /\ settlers[i].state = "DELIVERING_RESOURCE"
        /\ settlers[i].carriedResource = "plank"
        /\ settlers[i].carriedAmount = 1
        /\ FetchAttempt(CurrentWorld, j)
        /\ settlers[j].resourceToFetch = "plank"
        /\ timers[j]["fetch"] > 0

(***************************************************************************)
(* Claims about the path finder                                            *)
(***************************************************************************)
\* the 4-neighbours of a set of cells that lie in the grid
Around(cells, grid) ==
    {c \in grid : \E d \in cells : Abs(c[1] - d[1]) + Abs(c[2] - d[2]) = 1}

RECURSIVE BfsDistance(_, _, _, _, _)
\* breadth-first search by layers: the number of steps from the frontier to
\* the goal through cells of the grid, -1 when there is no way
BfsDistance(grid, frontier, visited, goal, d) ==
    IF goal \in frontier THEN d
    ELSE LET next == Around(frontier, grid) \ visited
         IN  IF next = {} THEN -1
             ELSE BfsDistance(grid, next, visited \cup next, goal, d + 1)

ShortestLength(s) ==
    BfsDistance(s.grid, {<<s.startX, s.startY>>}, {<<s.startX, s.startY>>},
                <<s.endX, s.endY>>, 0)

Between(a, b) == IF a <= b THEN a..b ELSE b..a

\* every cell of the rectangle spanned by start and goal is traversable
NoObstacleBetween(s) ==
    \A x \in Between(s.startX, s.endX), y \in Between(s.startY, s.endY) :
        <<x, y>> = <<s.startX, s.startY>> \/ <<x, y>> \in s.grid

\* C9: when the goal can be reached from the start, findPath returns as many
\* cells as the shortest path found by breadth-first search has steps, and
\* as many as the Manhattan distance when no obstacle lies between them.
C9_PathIsShortest ==
    (pf.done /\ "grid" \in DOMAIN pf /\ ShortestLength(pf) >= 0) =>
        /\ Len(pf.result) = ShortestLength(pf)
        /\ NoObstacleBetween(pf) =>
              Len(pf.result) = heuristic(pf.startX, pf.startY, pf.endX, pf.endY)

\* a finished search whose shortest way is a detour around an obstacle
C9_Witness ==
    /\ pf.done /\ "grid" \in DOMAIN pf
    /\ ShortestLength(pf) = 4
    /\ heuristic(pf.startX, pf.startY, pf.endX, pf.endY) = 2
    /\ Len(pf.result) = 4

\* C10: findPath terminates: every pass of its loop either returns or closes
\* one more cell of the finite grid, so there are at most w * h + 1 passes;
\* and when the goal cannot be reached it returns the empty sequence.
C10_PathTerminates ==
    /\ [](("grid" \in DOMAIN pf) =>
            pf.closedSet \subseteq (0..(pf.w - 1)) \X (0..(pf.h - 1)))
    /\ [][~pf.done =>
            \/ pf'.done
            \/ Cardinality(pf'.closedSet) > Cardinality(pf.closedSet)]_vars
    /\ [](pf.done /\ "grid" \in DOMAIN pf /\ ShortestLength(pf) = -1
            => pf.result = <<>>)

\* a finished search for a traversable goal that impassable cells enclose
C10_Witness ==
    /\ pf.done /\ "grid" \in DOMAIN pf
    /\ <<pf.endX, pf.endY>> \in pf.grid
    /\ <<pf.startX, pf.startY>> \in pf.grid
    /\ Cardinality(pf.closedSet) > 1
    /\ ShortestLength(pf) = -1
    /\ pf.result = <<>>

Adjacent(a, b) == Abs(a[1] - b[1]) + Abs(a[2] - b[2]) = 1

\* C11: a non-empty result of findPath leaves out the start cell, begins
\* next to the start, ends with the goal, steps between 4-adjacent cells and
\* holds only passable cells; the result is empty when the goal cannot be
\* reached
C11_PathIsWalkable ==
    (pf.done /\ "grid" \in DOMAIN pf) =>
        LET path == pf.result
            start == <<pf.startX, pf.startY>>
        IN  /\ path # <<>> =>
                  /\ \A k \in 1..Len(path) : path[k] # start
                  /\ Adjacent(path[1], start)
                  /\ path[Len(path)] = <<pf.endX, pf.endY>>
                  /\ \A k \in 1..(Len(path) - 1) : Adjacent(path[k], path[k + 1])
                  /\ \A k \in 1..Len(path) : path[k] \in pf.grid
            /\ ShortestLength(pf) = -1 => path = <<>>

\* a finished search whose result has several steps on a grid with
\* impassable cells next to the path
C11_Witness ==
    /\ pf.done /\ "grid" \in DOMAIN pf
    /\ Len(pf.result) >= 3
    /\ \E k \in 1..Len(pf.result) :
           \E c \in PathCells \ pf.grid : Adjacent(c, pf.result[k])

\* the interaction point of the building or construction a tile refers to
InteractionPointOf(id) ==
    IF id \in DOMAIN objects
    THEN objects[id].interactionPoint
    ELSE (CHOOSE b \in Range(buildings) : b.id = id).interactionPoint

\* C12: a tile is traversable for the path finder exactly if it is in
\* bounds, its terrain is neither water nor mountain, and it is unoccupied
\* or is the interaction point of the structure that occupies it
C12_PassableIffInteractionPoint ==
    \A x \in -1..WorldW, y \in -1..WorldH :
        isPassable(CurrentWorld, x, y) <=>
            /\ InBounds(x, y)
            /\ TerrainType(x, y) \notin {"water", "mountain"}
            /\ \/ tiles[<<x, y>>] = 0
               \/ <<x, y>> = InteractionPointOf(tiles[<<x, y>>])

\* the tile of a construction under way is its interaction point and is
\* traversable
C12_Witness ==
    \E id \in Range(constructions) :
        /\ tiles[objects[id].interactionPoint] = id
        /\ isPassable(CurrentWorld, objects[id].interactionPoint[1],
                      objects[id].interactionPoint[2])

\* the update() calls a tick owes the lists of a world, in order
RECURSIVE UpdatesOwed(_, _)
UpdatesOwed(kind, ids) ==
    IF ids = <<>> THEN <<>>
    ELSE <<(<<kind, Head(ids)>>)>> \o UpdatesOwed(kind, Tail(ids))

\* C13: a World.update call updates every settler, then every building,
\* then every construction, each entity of the lists as they are when the
\* tick begins exactly once, also in a tick in which a construction
\* completes
C13_UpdateOrder ==
    [][\A arrivals \in SUBSET Moving(CurrentWorld) :
           SetWorld(WorldUpdate(CurrentWorld, arrivals)) =>
               updated' =
                   UpdatesOwed("settler",
                               [i \in 1..Len(settlers) |-> i])
                   \o UpdatesOwed("building",
                                  [k \in 1..Len(buildings) |-> buildings[k].id])
                   \o UpdatesOwed("construction", constructions)
      ]_vars

\* the tick in which a construction was completed: the construction was
\* updated, the building that replaces it was not
C13_Witness ==
    \E id \in DOMAIN objects, k \in 1..Len(buildings) :
        /\ objects[id].progress >= 100
        /\ id \notin Range(constructions)
        /\ buildings[k].position = objects[id].position
        /\ <<"construction", id>> \in Range(updated)
        /\ <<"building", buildings[k].id>> \notin Range(updated)
        /\ <<"building", 1>> \in Range(updated)

\* C14: removeResource(type, n) with n above the count of the type returns
\* false, leaves every count as it is and calls no listener
C14_RemoveTooMuchFails ==
    [][\A type \in ResourceTypes, n \in Amounts :
           (RemoveResourceCall(type, n) /\ n > getResource(resources, type))
           => /\ ret' = FALSE
              /\ resources' = resources
              /\ notified' = <<>>
      ]_vars

\* a removeResource call has failed with a listener registered; the types
\* other than plank hold as much as any call asks for, so the call asked
\* for more planks than the one plank there is
C14_Witness ==
    /\ lastOp = "removeResource"
    /\ ret = FALSE
    /\ getResource(resources, "plank") = 1
    /\ \A type \in ResourceTypes \ {"plank"} :
           getResource(resources, type) >= MaxAmount
    /\ Len(listeners) > 0
    /\ notified = <<>>

\* C15: for every state of the ledger and every requirements map with
\* amounts from 0 up, hasResources returns true exactly if the count of
\* every type of the map is at least the amount asked
C15_HasResourcesIffCovered ==
    \A requirements \in UNION {[D -> Amounts] : D \in SUBSET ResourceTypes} :
        hasResources(resources, requirements) <=>
            \A type \in DOMAIN requirements :
                getResource(resources, type) >= requirements[type]

\* the listener calls owed by a call that succeeds: one for each entry of
\* the list of listeners, in list order, each with the counts after the call
EachListenerOnce(calls, ls, res) ==
    /\ Len(calls) = Len(ls)
    /\ \A k \in 1..Len(ls) : calls[k] = <<ls[k], res>>

\* C16: a successful addResource, removeResource or consumeResources call
\* calls every registered listener once (a callback registered twice is
\* two entries of the list), after the mutation and with the counts the
\* ledger then has; a failed removeResource or consumeResources calls none;
\* a callback is not registered after removeListener, and only registered
\* callbacks are called
C16_ListenersNotified ==
    [][/\ \A type \in ResourceTypes, amount \in Amounts :
              /\ AddResourceCall(type, amount) =>
                     EachListenerOnce(notified', listeners, resources')
              /\ RemoveResourceCall(type, amount) =>
                     IF ret' THEN EachListenerOnce(notified', listeners, resources')
                     ELSE notified' = <<>>
       /\ \A requirements \in UNION {[D -> Amounts] : D \in SUBSET ListenTypes} :
              ConsumeResourcesCall(requirements) =>
                  IF ret' THEN EachListenerOnce(notified', listeners, resources')
                  ELSE notified' = <<>>
       /\ \A callback \in Callbacks :
              RemoveListenerCall(callback) =>
                  /\ callback \notin Range(listeners')
                  /\ \A k \in 1..Len(listeners') : listeners'[k] \in Range(listeners)
       /\ \A k \in 1..Len(notified') : notified'[k][1] \in Range(listeners')
      ]_vars

\* two callbacks are registered and a consumeResources call that took
\* planks has called the one, then the other, with the new counts
C16_Witness ==
    /\ lastOp = "consumeResources"
    /\ ret = TRUE
    /\ getResource(resources, "plank") < InitialPlank
    /\ listeners = <<"b", "a">>
    /\ notified = << <<"b", resources>>, <<"a", resources>> >>

\* the types a construction is under-supplied with, in the order of its
\* required map
UnderSupplied(c) ==
    SelectSeq(Entries(c.requiredResources),
              LAMBDA r : c.allocatedResources[r] < c.requiredResources[r])

\* if porter i takes a unit from the ledger between W and W2, the unit is of
\* the first type its target construction is under-supplied with in W
PickupIsNeeded(W, W2, i) ==
    (/\ W.settlers[i].type = "porter"
     /\ W.settlers[i].carriedAmount = 0
     /\ W2.settlers[i].carriedAmount > 0)
    => /\ W.settlers[i].targetConstruction # 0
       /\ LET c == W.objects[W.settlers[i].targetConstruction]
          IN  /\ UnderSupplied(c) # <<>>
              /\ Head(UnderSupplied(c)) = W2.settlers[i].carriedResource

\* C17: whenever a porter takes a unit of a type from the ledger for a
\* construction, the construction is at that moment under-supplied with
\* the type, and with no type that comes earlier in its required map; the
\* porter takes the unit in a retry timer or in its own update in a tick
C17_FetchedTypeIsNeeded ==
    [][/\ \A i \in 1..Len(settlers), near \in BOOLEAN :
              (/\ timers[i]["fetch"] > 0
               /\ near => i \in Moving(CurrentWorld)
               /\ SetWorld(TimerCallback(
                      Interrupted([CurrentWorld EXCEPT
                                       !.timers[i]["fetch"] = @ - 1],
                                  i, near),
                      i, "fetch")))
              => PickupIsNeeded(CurrentWorld, CurrentWorld', i)
       /\ \A arrivals \in SUBSET Moving(CurrentWorld) :
              SetWorld(WorldUpdate(CurrentWorld, arrivals)) =>
                  \A i \in 1..Len(settlers) :
                      LET before == TurnOf(CurrentWorld, 1, i, arrivals)
                      IN  PickupIsNeeded(
                              before, SettlerUpdate(before, i, i \in arrivals), i)
      ]_vars

\* a porter carries a plank to a construction that requires two types and
\* still lacks planks
C17_Witness ==
    \E i \in 1..Len(settlers) :
        /\ settlers[i].carriedAmount > 0
        /\ settlers[i].carriedResource = "plank"
        /\ settlers[i].targetConstruction # 0
        /\ LET c == objects[settlers[i].targetConstruction]
           IN  /\ Len(Entries(c.requiredResources)) > 1
               /\ Head(UnderSupplied(c)) = "plank"

\* the changes of state a porter may make
PorterTransitions ==
    {<<"IDLE", "FETCHING_RESOURCE">>,
     <<"FETCHING_RESOURCE", "DELIVERING_RESOURCE">>,
     <<"FETCHING_RESOURCE", "IDLE">>,
     <<"DELIVERING_RESOURCE", "FETCHING_RESOURCE">>,
     <<"DELIVERING_RESOURCE", "IDLE">>}

\* porter i hands its unit over to its target between W and W2
Delivers(W, W2, i) ==
    /\ W.settlers[i].type = "porter"
    /\ W.settlers[i].state = "DELIVERING_RESOURCE"
    /\ W.settlers[i].targetConstruction # 0
    /\ W2.objects[W.settlers[i].targetConstruction].allocatedResources
           # W.objects[W.settlers[i].targetConstruction].allocatedResources

\* C18: a porter's state changes only from IDLE to FETCHING_RESOURCE, from
\* FETCHING_RESOURCE to DELIVERING_RESOURCE or IDLE, and from
\* DELIVERING_RESOURCE to FETCHING_RESOURCE or IDLE; the update in which it
\* delivers leaves it in FETCHING_RESOURCE with the same target if the
\* target still lacks resources, and in IDLE with no target otherwise
C18_PorterTransitions ==
    [][/\ \A i \in 1..Len(settlers) :
              (settlers[i].type = "porter"
                   /\ settlers'[i].state # settlers[i].state)
              => <<settlers[i].state, settlers'[i].state>> \in PorterTransitions
       /\ \A arrivals \in SUBSET Moving(CurrentWorld) :
              SetWorld(WorldUpdate(CurrentWorld, arrivals)) =>
                  \A i \in 1..Len(settlers) :
                      LET before == TurnOf(CurrentWorld, 1, i, arrivals)
                          after == SettlerUpdate(before, i, i \in arrivals)
                          c == before.settlers[i].targetConstruction
                      IN  Delivers(before, after, i) =>
                              IF ~hasAllResources(after.objects[c])
                              THEN /\ after.settlers[i].state = "FETCHING_RESOURCE"
                                   /\ after.settlers[i].targetConstruction = c
                              ELSE /\ after.settlers[i].state = "IDLE"
                                   /\ after.settlers[i].targetConstruction = 0
      ]_vars

\* a porter has delivered the unit that completes its target: it is IDLE
\* with no target, which only the delivery leaves it with once it has worked
C18_Witness ==
    \E i \in 1..Len(settlers), c \in DOMAIN objects :
        /\ settlers[i].type = "porter"
        /\ settlers[i].state = "IDLE"
        /\ settlers[i].targetConstruction = 0
        /\ settlers[i].resourceToFetch # "none"
        /\ hasAllResources(objects[c])
        /\ objects[c].allocatedResources["plank"] > 0

\* settler i is in a state in which it works for a target construction and
\* the target is not in the list of constructions
HoldsVanishedTarget(W, i) ==
    /\ W.settlers[i].state \in
           IF W.settlers[i].type = "porter"
           THEN {"DELIVERING_RESOURCE"}
           ELSE {"MOVING_TO_CONSTRUCTION", "BUILDING"}
    /\ W.settlers[i].targetConstruction # 0
    /\ W.settlers[i].targetConstruction \notin Range(W.constructions)

\* C19: in every tick, a settler whose update finds it with a target
\* construction that is no longer in the list of constructions (a porter
\* delivering, a builder on its way or building) is IDLE when its update
\* returns, whether or not it is on the move
C19_VanishedTargetAbandoned ==
    [][\A arrivals \in SUBSET Moving(CurrentWorld) :
           SetWorld(WorldUpdate(CurrentWorld, arrivals)) =>
               \A i \in 1..Len(settlers) :
                   LET before == TurnOf(CurrentWorld, 1, i, arrivals)
                       after == SettlerUpdate(before, i, i \in arrivals)
                   IN  HoldsVanishedTarget(before, i) =>
                           after.settlers[i].state = "IDLE"
      ]_vars

\* a porter on the move holds a target that has left the list
C19_Witness ==
    \E i \in 1..Len(settlers) :
        /\ HoldsVanishedTarget(CurrentWorld, i)
        /\ i \in Moving(CurrentWorld)

\* C20: when a porter in DELIVERING_RESOURCE runs its delivery step and its
\* target construction is not in the list of constructions, the step leaves
\* it IDLE and carrying nothing, the ledger as it was (the unit is not
\* given back) and the allocated resources of every construction as they
\* were
C20_VanishedTargetDropsUnit ==
    [][\A arrivals \in SUBSET Moving(CurrentWorld) :
           SetWorld(WorldUpdate(CurrentWorld, arrivals)) =>
               \A i \in 1..Len(settlers) :
                   LET before == TurnOf(CurrentWorld, 1, i, arrivals)
                       after == SettlerUpdate(before, i, i \in arrivals)
                   IN  (/\ before.settlers[i].type = "porter"
                        /\ before.settlers[i].state = "DELIVERING_RESOURCE"
                        /\ i \notin Moving(before)
                        /\ before.settlers[i].targetConstruction
                               \notin Range(before.constructions))
                       => /\ after.settlers[i].state = "IDLE"
                          /\ after.settlers[i].carriedAmount = 0
                          /\ after.settlers[i].carriedResource = "none"
                          /\ after.res = before.res
                          /\ \A c \in DOMAIN before.objects :
                                 after.objects[c].allocatedResources
                                     = before.objects[c].allocatedResources
      ]_vars

\* six planks were there to take (five left by the placement, one added),
\* the construction got the five it required and has left the list, the
\* ledger has none and nobody carries one: a porter has dropped the sixth
C20_Witness ==
    \E i \in 1..Len(settlers) :
        /\ settlers[i].type = "porter"
        /\ settlers[i].state = "IDLE"
        /\ settlers[i].targetConstruction # 0
        /\ settlers[i].targetConstruction \notin Range(constructions)
        /\ objects[settlers[i].targetConstruction].allocatedResources
               = objects[settlers[i].targetConstruction].requiredResources
        /\ adds = 1
        /\ resources["stone"] = InitialStone
        /\ resources["plank"] = 0
        /\ \A j \in 1..Len(settlers) : settlers[j].carriedAmount = 0

\* builder i is in BUILDING and its target is in the list of constructions
InSession(W, i) ==
    /\ W.settlers[i].type = "builder"
    /\ W.settlers[i].state = "BUILDING"
    /\ W.settlers[i].targetConstruction \in Range(W.constructions)

\* C21: a builder in BUILDING whose target is in the list of constructions
\* is not on the move and no step sets it moving; each of its updates adds
\* the time of one frame to its building time, leaves it where it is, and
\* sets the progress of the target to 100 exactly when the time has reached
\* buildingTime (300 updates), leaving it in BUILDING until then
C21_BuildSessionUninterrupted ==
    [][/\ \A i \in 1..Len(settlers) :
              InSession(CurrentWorld, i) =>
                  /\ ~settlers[i].isMoving
                  /\ ~settlers'[i].isMoving
                  /\ settlers'[i].position = settlers[i].position
       /\ \A arrivals \in SUBSET Moving(CurrentWorld) :
              SetWorld(WorldUpdate(CurrentWorld, arrivals)) =>
                  \A i \in 1..Len(settlers) :
                      LET before == TurnOf(CurrentWorld, 1, i, arrivals)
                          after == SettlerUpdate(before, i, i \in arrivals)
                          c == before.settlers[i].targetConstruction
                          time == before.settlers[i].currentBuildingTime
                                      + frameTime
                      IN  InSession(before, i) =>
                              /\ after.settlers[i].currentBuildingTime = time
                              /\ IF time >= buildingTime
                                 THEN /\ after.objects[c].progress = 100
                                      /\ time = 300 * frameTime
                                 ELSE /\ after.settlers[i].state = "BUILDING"
                                      /\ after.objects[c].progress
                                             = before.objects[c].progress
                                      /\ after.objects[c].progress < 100
      ]_vars

\* a builder is in BUILDING with a cell of its path left and the timer of
\* the pause between two legs pending
C21_Witness ==
    \E i \in 1..Len(settlers) :
        /\ InSession(CurrentWorld, i)
        /\ Len(settlers[i].path) > 0
        /\ timers[i]["leg"] > 0

\* the state, the carried payload and the movement target of a settler
Conduct(s) ==
    <<s.state, s.carriedResource, s.carriedAmount, s.targetPosition>>

\* C22: a step that changes the state, the carried payload or the movement
\* target of a settler, or the ledger, is a World.update: the callbacks of
\* the timers change none of them between two ticks
C22_SettlerLogicOnlyInTicks ==
    [][(\/ resources' # resources
        \/ \E i \in 1..Len(settlers) :
               Conduct(settlers'[i]) # Conduct(settlers[i]))
       => \E arrivals \in SUBSET Moving(CurrentWorld) :
              SetWorld(WorldUpdate(CurrentWorld, arrivals))
      ]_vars

\* a porter is in FETCHING_RESOURCE, standing, with the callback of a fetch
\* timer pending
C22_Witness ==
    \E i \in 1..Len(settlers) :
        /\ settlers[i].state = "FETCHING_RESOURCE"
        /\ ~settlers[i].isMoving
        /\ timers[i]["fetch"] > 0

\* settler i is IDLE, standing, and the retry of a scan that found nothing
\* is pending
BackingOff(W, i) ==
    /\ W.settlers[i].state = "IDLE"
    /\ i \notin Moving(W)
    /\ W.timers[i]["idle"] > 0

\* C23: the update of an idle settler whose retry is pending does not scan
\* the constructions: it neither takes a target nor sets another retry, so
\* that one retry at most is pending
C23_NoScanDuringBackOff ==
    [][\A arrivals \in SUBSET Moving(CurrentWorld) :
           SetWorld(WorldUpdate(CurrentWorld, arrivals)) =>
               \A i \in 1..Len(settlers) :
                   LET before == TurnOf(CurrentWorld, 1, i, arrivals)
                       after == SettlerUpdate(before, i, i \in arrivals)
                   IN  BackingOff(before, i) =>
                           /\ after.settlers[i] = before.settlers[i]
                           /\ after.timers[i]["idle"] = before.timers[i]["idle"]
                           /\ after.timers[i]["idle"] <= 1
      ]_vars

\* a builder whose retry is pending stands idle while a construction is
\* waiting for its resources
C23_Witness ==
    \E i \in 1..Len(settlers), k \in 1..Len(constructions) :
        /\ settlers[i].type = "builder"
        /\ BackingOff(CurrentWorld, i)
        /\ ~hasAllResources(objects[constructions[k]])

\* the tile of a footprint the settlers are to reach: its bottom right tile
\* for a warehouse, the middle of its bottom edge otherwise
DesignatedTile(type, position, size) ==
    IF type = "warehouse"
    THEN <<position[1] + size[1] - 1, position[2] + size[2] - 1>>
    ELSE <<position[1] + (size[1] \div 2), position[2] + size[2] - 1>>

\* C24: the interaction point of every building and of every construction
\* is the bottom right tile of its footprint if it is (the construction of)
\* a warehouse and the middle tile of the bottom edge of its footprint
\* otherwise
C24_InteractionPointOfFootprint ==
    /\ \A k \in 1..Len(buildings) :
           buildings[k].interactionPoint
               = DesignatedTile(buildings[k].type, buildings[k].position,
                                buildings[k].size)
    /\ \A id \in DOMAIN objects :
           objects[id].interactionPoint
               = DesignatedTile(objects[id].targetBuildingType,
                                objects[id].position, objects[id].size)

\* a woodcutter has been built and its interaction point is its tile
C24_Witness ==
    \E k \in 1..Len(buildings) :
        /\ buildings[k].type = "woodcutter"
        /\ buildings[k].interactionPoint = buildings[k].position

\* C25: every tile refers to nothing, or to a construction of the list of
\* constructions or a building of the list of buildings whose footprint
\* holds the tile; so no tile refers to a construction that
\* completeConstruction has removed, whatever it was to become
C25_TilesReferToLiveEntities ==
    \A c \in Cells :
        \/ tiles[c] = 0
        \/ /\ tiles[c] \in Range(constructions)
           /\ c \in Footprint(objects[tiles[c]].position, objects[tiles[c]].size)
        \/ \E k \in 1..Len(buildings) :
               /\ buildings[k].id = tiles[c]
               /\ c \in Footprint(buildings[k].position, buildings[k].size)

\* a construction has been completed and its tile refers to the building
\* that took its place
C25_Witness ==
    \E id \in DOMAIN objects, k \in 1..Len(buildings) :
        /\ id \notin Range(constructions)
        /\ buildings[k].position = objects[id].position
        /\ tiles[objects[id].position] = buildings[k].id

\* C26: assignWorker starts the production, consuming one batch of the
\* input, only when the number of workers rises from zero, and an
\* assignment to a building that already has workers changes neither the
\* ledger nor isProducing; removeWorker stops the production only when the
\* number of workers falls to zero.
C26_WorkersStartAndStopProduction ==
    [][\A k \in Workplaces, worker \in 1..MaxWorkers :
           /\ (/\ worker \notin Range(buildings[k].workers)
               /\ SetWorld(assignWorker(CurrentWorld, k, worker)))
              => /\ Len(buildings[k].workers) > 0
                    => /\ resources' = resources
                       /\ buildings'[k].isProducing = buildings[k].isProducing
                 /\ (~buildings[k].isProducing /\ buildings'[k].isProducing)
                    => Len(buildings'[k].workers) = 1
           /\ (/\ worker \in Range(buildings[k].workers)
               /\ SetWorld(removeWorker(CurrentWorld, k, worker)))
              => /\ resources' = resources
                 /\ (buildings[k].isProducing /\ ~buildings'[k].isProducing)
                    => Len(buildings'[k].workers) = 0
                 /\ Len(buildings'[k].workers) > 0
                    => buildings'[k].isProducing = buildings[k].isProducing
      ]_vars

\* a building that consumes a resource is producing with two workers: the
\* second has been assigned to it
C26_Witness ==
    \E k \in Workplaces :
        /\ Consumes(buildings[k].type) # <<>>
        /\ Len(buildings[k].workers) = 2
        /\ buildings[k].isProducing

\* the ledger with the amount added to the count of one type
Plus(res, type, amount) == [res EXCEPT ![type] = @ + amount]

\* the ledger with a batch taken from it
Minus(res, batch) ==
    [t \in DOMAIN res |-> IF t \in DOMAIN batch THEN res[t] - batch[t]
                           ELSE res[t]]

\* the ledger holds the batch
Covers(res, batch) == \A t \in DOMAIN batch : res[t] >= batch[t]

\* C27: in a tick a producing building adds 16.67 ms to its timer; when the
\* timer reaches 5000 ms it is reset and exactly rate * level units of the
\* produced resource are added to the ledger, and a building that consumes
\* then takes exactly one batch for the next cycle if the ledger covers it
\* and otherwise stops producing; the update of a building that is not
\* producing changes neither the ledger nor the building.
C27_ProductionCycle ==
    [][SetWorld(WorldUpdate(CurrentWorld, {}))
       => \A k \in Workplaces :
              LET b == buildings[k]
                  after == buildings'[k]
                  made == Plus(resources, Produces(b.type).type,
                               Produces(b.type).rate * b.level)
                  batch == Consumes(b.type)
              IN  /\ ~b.isProducing
                     => resources' = resources /\ after = b
                  /\ (b.isProducing
                      /\ b.productionTimer + frameTime < productionTime)
                     => /\ resources' = resources
                        /\ after = [b EXCEPT !.productionTimer = @ + frameTime]
                  /\ (b.isProducing
                      /\ b.productionTimer + frameTime >= productionTime)
                     => /\ after.productionTimer = 0
                        /\ after.level = b.level
                        /\ batch = <<>>
                           => resources' = made /\ after.isProducing
                        /\ (batch # <<>> /\ Covers(made, batch))
                           => /\ resources' = Minus(made, batch)
                              /\ after.isProducing
                        /\ (batch # <<>> /\ ~Covers(made, batch))
                           => resources' = made /\ ~after.isProducing
      ]_vars

\* a staffed sawmill of level 2 has stopped for lack of wood after it
\* produced planks: the planks left by the upgrade were 0
C27_Witness ==
    \E k \in Workplaces :
        /\ buildings[k].type = "sawmill"
        /\ buildings[k].level = 2
        /\ buildings[k].workers # <<>>
        /\ ~buildings[k].isProducing
        /\ buildings[k].productionTimer = 0
        /\ resources["wood"] = 0
        /\ resources["plank"] = 2

\* C28: the update of a settler, porter or builder, that reaches the switch
\* on the state with a value that is not one of its states sets the state
\* to IDLE, clears targetPosition, sets isMoving to false and empties the
\* path.
C28_StrayStateReset ==
    [][\A arrivals \in SUBSET Moving(CurrentWorld) :
           SetWorld(WorldUpdate(CurrentWorld, arrivals)) =>
               \A i \in 1..Len(settlers) :
                   LET before == TurnOf(CurrentWorld, 1, i, arrivals)
                       s == before.settlers[i]
                       after == SettlerUpdate(before, i, i \in arrivals)
                   IN  (/\ s.state \notin DefinedStates(s.type)
                        /\ ~(s.isMoving /\ s.targetPosition # <<>>))
                       => /\ after.settlers[i].state = "IDLE"
                          /\ after.settlers[i].targetPosition = <<>>
                          /\ ~after.settlers[i].isMoving
                          /\ after.settlers[i].path = <<>>
      ]_vars

\* a builder has been updated and its state is still none of its states
C28_Witness ==
    \E i \in 1..Len(settlers) :
        /\ settlers[i].type = "builder"
        /\ settlers[i].state \notin DefinedStates("builder")
        /\ updated # <<>>

\* the constructions of the world's list that lack a resource, in the
\* order of the list
Needy(W) ==
    SelectSeq(W.constructions, LAMBDA id : ~hasAllResources(W.objects[id]))

\* C29: when the update of an idle porter finds constructions that lack a
\* resource, the porter targets the construction it targeted before if
\* that is one of them, and otherwise the first of them in the world's
\* list; the construction it targets is never one with all its resources.
C29_IdlePorterTargets ==
    [][\A arrivals \in SUBSET Moving(CurrentWorld) :
           SetWorld(WorldUpdate(CurrentWorld, arrivals)) =>
               \A i \in 1..Len(settlers) :
                   LET before == TurnOf(CurrentWorld, 1, i, arrivals)
                       s == before.settlers[i]
                       after == SettlerUpdate(before, i, i \in arrivals)
                       target == after.settlers[i].targetConstruction
                   IN  (/\ s.type = "porter"
                        /\ s.state = "IDLE"
                        /\ ~(s.isMoving /\ s.targetPosition # <<>>)
                        /\ Needy(before) # <<>>)
                       => /\ after.settlers[i].state = "FETCHING_RESOURCE"
                          /\ ~hasAllResources(before.objects[target])
                          /\ target = IF s.targetConstruction
                                           \in Range(Needy(before))
                                      THEN s.targetConstruction
                                      ELSE Head(Needy(before))
      ]_vars

\* a porter is fetching for the second construction of the list while the
\* first lacks a resource too
C29_Witness ==
    /\ Len(Needy(CurrentWorld)) = 2
    /\ \E i \in 1..Len(settlers) :
           /\ settlers[i].type = "porter"
           /\ settlers[i].state = "FETCHING_RESOURCE"
           /\ settlers[i].targetConstruction = constructions[2]

\* settler i takes the next cell of its path in the step: the path loses
\* its first cell and the settler is sent to that cell
Pops(i) ==
    /\ settlers[i].path # <<>>
    /\ settlers'[i].path = Tail(settlers[i].path)
    /\ settlers'[i].isMoving
    /\ settlers'[i].targetPosition = Head(settlers[i].path)

\* C30: a settler takes the next cell of its path only when it is not on
\* its way to a cell, that is after it has arrived at the cell it took
\* before, whatever timers are pending and however often followPath has
\* been called; so no cell of the path is passed over.
C30_PopsOnlyAfterArrival ==
    [][\A i \in 1..Len(settlers) :
           Pops(i) => ~(settlers[i].isMoving
                        /\ settlers[i].targetPosition # <<>>)
      ]_vars

\* a settler is on its way to a cell it took from its path, with cells
\* left to take
C30_Witness ==
    \E i \in 1..Len(settlers) :
        /\ settlers[i].isMoving
        /\ settlers[i].targetPosition # <<>>
        /\ settlers[i].path # <<>>
        /\ timers[i]["follow"] = 0
        /\ timers[i]["leg"] = 0

\* C31: the grid cell of the world position of a cell is the cell, and a
\* settler whose update finds it arrived (less than 0.25 from the world
\* position of the cell it moves to) has that cell as its grid position
\* afterwards, from whichever side it came.
C31_ArrivalSetsTargetCell ==
    [][/\ \A c \in Cells : getGridPosition(getWorldPosition(c)) = c
       /\ \A arrivals \in SUBSET Moving(CurrentWorld) :
              SetWorld(WorldUpdate(CurrentWorld, arrivals)) =>
                  \A i \in arrivals :
                      LET before == TurnOf(CurrentWorld, 1, i, arrivals)
                          after == SettlerUpdate(before, i, TRUE)
                      IN  after.settlers[i].position
                              = before.settlers[i].targetPosition
      ]_vars

\* a settler has arrived and stands off the corner of its tile: it came
\* from the right or from below
C31_Witness ==
    \E i \in 1..Len(settlers) :
        /\ ~settlers[i].isMoving
        /\ settlers[i].targetPosition = <<>>
        /\ settlers[i].mesh # getWorldPosition(settlers[i].position)
        /\ getGridPosition(settlers[i].mesh) = settlers[i].position

\* construction id of the list has all its resources
Resourced(id) ==
    id \in Range(constructions) /\ hasAllResources(objects[id])

\* construction id has progress 100 and is no longer in the list
Completed(id) ==
    /\ id \in DOMAIN objects
    /\ id \notin Range(constructions)
    /\ objects[id].progress = 100

Keys(openSet) == {openSet[k].key : k \in 1..Len(openSet)}

\* C33: during findPath the g-score of every discovered cell is finite and
\* is the number of steps of its cameFrom chain back to the start; the f
\* of an open node is its g plus the Manhattan distance to the goal, and
\* the node a pass takes from the open set has the least f of the open
\* nodes; a g-score that a pass changes becomes strictly smaller; a closed
\* cell stays closed and is not put into the open set again.
C33_ScoresAndOpenSet ==
    /\ []("grid" \in DOMAIN pf =>
             \A key \in DOMAIN pf.gScore :
                 /\ pf.gScore[key] < Infinity
                 /\ pf.gScore[key] = Len(reconstructPath(pf.cameFrom, key)))
    /\ []("grid" \in DOMAIN pf =>
             \A k \in 1..Len(pf.openSet) :
                 LET n == pf.openSet[k]
                 IN  n.f = JsAdd(pf.gScore[n.key],
                                 heuristic(n.x, n.y, pf.endX, pf.endY)))
    /\ [][("grid" \in DOMAIN pf /\ ~pf.done) =>
             /\ \A k \in 1..Len(pf.openSet) :
                    pf.openSet[k].key \notin Keys(pf'.openSet)
                        => \A j \in 1..Len(pf.openSet) :
                               pf.openSet[k].f <= pf.openSet[j].f
             /\ \A key \in DOMAIN pf.gScore :
                    pf'.gScore[key] # pf.gScore[key]
                        => pf'.gScore[key] < pf.gScore[key]
             /\ pf.closedSet \subseteq pf'.closedSet
             /\ Keys(pf'.openSet) \cap pf'.closedSet = {}]_vars

\* a search has discovered a cell two steps from the start
C33_Witness ==
    /\ "grid" \in DOMAIN pf
    /\ \E key \in DOMAIN pf.gScore :
           Len(reconstructPath(pf.cameFrom, key)) = 2

\* construction id of the list lacks a resource, and the ledger holds at
\* least what it lacks of every type
Suppliable(id) ==
    /\ id \in Range(constructions)
    /\ ~hasAllResources(objects[id])
    /\ \A r \in DOMAIN objects[id].requiredResources :
           resources[r] >= objects[id].requiredResources[r]
                               - objects[id].allocatedResources[r]

\* construction id has all its resources
Supplied(id) == id \in DOMAIN objects /\ hasAllResources(objects[id])

\* C34: with a porter in the world and fair ticking, a construction that
\* lacks resources the ledger holds eventually has all its resources,
\* whether it requires one type of resource or several.
C34_SuppliableIsSupplied ==
    \A id \in 2..(MaxPlacements + 1) : Suppliable(id) ~> Supplied(id)

\* the porters have brought a construction of the list all its resources
C34_Witness ==
    \E id \in 2..(MaxPlacements + 1) :
        /\ Supplied(id)
        /\ id \in Range(constructions)
        /\ \E r \in DOMAIN objects[id].requiredResources :
               objects[id].allocatedResources[r] > 0


(***************************************************************************)
(* C35                                                                     *)
(***************************************************************************)
\* the buildings and the constructions of the world's lists, each with
\* the tiles it covers
Structures ==
    {[id |-> b.id, footprint |-> Footprint(b.position, b.size)] :
         b \in Range(buildings)}
    \cup {[id |-> id, footprint |-> Footprint(objects[id].position,
                                              objects[id].size)] :
              id \in Range(constructions)}

\* C35: the footprints of the buildings and constructions of the world are
\* pairwise disjoint, whatever the order of the placement events and ticks
C35_FootprintsDisjoint ==
    \A a \in Structures : \A b \in Structures \ {a} :
        a.footprint \cap b.footprint = {}

\* two constructions have been placed, on different tiles, clear of the
\* warehouse
C35_Witness ==
    /\ Len(constructions) = 2
    /\ Cardinality(Structures) = 3
    /\ \A a \in Structures : \A b \in Structures \ {a} :
           a.footprint \cap b.footprint = {}

(***************************************************************************)
(* C36                                                                     *)
(***************************************************************************)
\* the units of type r in the allocated maps of the constructions ids
RECURSIVE Allocated(_, _, _)
Allocated(W, ids, r) ==
    IF ids = {} THEN 0
    ELSE LET id == CHOOSE c \in ids : TRUE
             own == IF r \in DOMAIN W.objects[id].allocatedResources
                    THEN W.objects[id].allocatedResources[r] ELSE 0
         IN  own + Allocated(W, ids \ {id}, r)

\* the units of type r in the hands of settlers k, k + 1, ...
RECURSIVE Carried(_, _, _)
Carried(W, k, r) ==
    IF k > Len(W.settlers) THEN 0
    ELSE (IF W.settlers[k].carriedResource = r
          THEN W.settlers[k].carriedAmount ELSE 0) + Carried(W, k + 1, r)

\* the units of type r that the delivery step of porter i is about to drop,
\* its target having left the list of constructions
Dropped(W, i, r) ==
    LET s == W.settlers[i]
    IN  IF /\ s.type = "porter"
           /\ s.state = "DELIVERING_RESOURCE"
           /\ i \notin Moving(W)
           /\ s.targetConstruction \notin Range(W.constructions)
           /\ s.carriedResource = r
        THEN s.carriedAmount ELSE 0

\* what a step of settler i takes from the ledger is in the allocated maps,
\* in the hands of the porters or dropped, and a step delivers at most the
\* one unit the porter carried
Accounted(W, W2, i, dropped) ==
    \A r \in ResourceTypes :
        LET delivered == Allocated(W2, DOMAIN W2.objects, r)
                             - Allocated(W, DOMAIN W.objects, r)
            pickedUp == Carried(W2, 1, r) - Carried(W, 1, r)
        IN  /\ W.res[r] - W2.res[r] = delivered + pickedUp + dropped[r]
            /\ delivered \in {0, 1}
            /\ delivered = 1 => /\ W.settlers[i].carriedResource = r
                                /\ W.settlers[i].carriedAmount = 1
            /\ pickedUp = 1 => W.res[r] - W2.res[r] = 1

\* C36: for every type of resource, what the porters take from the ledger
\* is what they deliver into the allocated maps, carry, or drop on a target
\* that has vanished: each turn of a settler in a tick and each timer
\* callback keeps the account, and a unit delivered is a unit that was
\* carried, taken from the ledger one at a time
C36_PorterUnitsAccounted ==
    [][/\ \A arrivals \in SUBSET Moving(CurrentWorld) :
              SetWorld(WorldUpdate(CurrentWorld, arrivals)) =>
                  \A i \in 1..Len(settlers) :
                      LET before == TurnOf(CurrentWorld, 1, i, arrivals)
                          after == SettlerUpdate(before, i, i \in arrivals)
                      IN  Accounted(before, after, i,
                                    [r \in ResourceTypes |->
                                         Dropped(before, i, r)])
       /\ \A i \in 1..Len(settlers), kind \in TimerKinds, near \in BOOLEAN :
              (/\ timers[i][kind] > 0
               /\ near => i \in Moving(CurrentWorld)
               /\ SetWorld(TimerCallback(
                      Interrupted([CurrentWorld EXCEPT
                                       !.timers[i][kind] = @ - 1],
                                  i, near),
                      i, kind)))
              => Accounted(CurrentWorld, CurrentWorld', i,
                           [r \in ResourceTypes |-> 0])
      ]_vars

\* the porters took six planks from the ledger: five are in the allocated
\* map of the construction, which has left the list, and the sixth was
\* dropped; another state has a plank in a porter's hands
C36_Witness ==
    /\ adds = 1
    /\ resources["plank"] = 0
    /\ resources["stone"] = InitialStone
    /\ Allocated(CurrentWorld, DOMAIN objects, "plank") = 5
    /\ Carried(CurrentWorld, 1, "plank") = 0
    /\ constructions = <<>>

(***************************************************************************)
(* C37: a second placement while the settlers work on the first            *)
(***************************************************************************)
\* the planks a call of addResource adds to the ledger
RestockAmount == 5

\* one porter at the entry of the warehouse, one builder at the top right
\* tile of the warehouse, the construction of a woodcutter right of the
\* entry; the player has chosen to place another woodcutter and points at
\* the free tile above the construction
AgainInit ==
    /\ NoCalls
    /\ pf = NoSearch
    /\ WorldIs(onMouseMove(
           startBuildingPlacement(
               Placed(NewWorld(<< <<0, 1>>, <<0, -1>>, <<0, -1>> >>,
                               << <<1, 0>>, <<0, -1>> >>),
                      "woodcutter", <<warehouseX + 2, warehouseY + 1>>),
               "woodcutter"),
           <<warehouseX + 2, warehouseY>>))

\* addResource("plank", amount) called by code other than the settlers'
RestockPlanks ==
    /\ adds < MaxAdds
    /\ resources["plank"] + RestockAmount <= MaxStock
    /\ SetWorld([CurrentWorld EXCEPT
                     !.res = addResource(@, "plank", RestockAmount).res])
    /\ adds' = adds + 1
    /\ UnchangedByWorld

AgainNext == Tick \/ TimerFire \/ MouseMove \/ Click \/ RestockPlanks

SpecAgain == AgainInit /\ [][AgainNext]_vars

\* the constructions that were completed: progress 100 and out of the list
CompletedOnes == {id \in DOMAIN objects : Completed(id)}

\* the sum of the requirements of resource r of the constructions ids
RECURSIVE Required(_, _)
Required(ids, r) ==
    IF ids = {} THEN 0
    ELSE LET id == CHOOSE c \in ids : TRUE
         IN  (IF r \in DOMAIN objects[id].requiredResources
              THEN objects[id].requiredResources[r] ELSE 0)
                 + Required(ids \ {id}, r)

\* what has left the ledger since the world began: what it began with and
\* what was added to it, less what it holds
LedgerDecrease(r) ==
    InitialResources[r] + (IF r = "plank" THEN adds * RestockAmount ELSE 0)
        - resources[r]

\* C37: when a construction is completed the ledger has been charged for it
\* twice, in full at the placement and unit by unit by the porters: what
\* has left the ledger is at least twice the requirements of the
\* constructions completed so far, for every resource
C37_ChargedTwice ==
    \A r \in ResourceTypes :
        LedgerDecrease(r) >= 2 * Required(CompletedOnes, r)

\* a construction is completed and exactly twice its planks have left the
\* ledger
C37_Witness ==
    /\ Cardinality(CompletedOnes) = 1
    /\ LedgerDecrease("plank") = 2 * Required(CompletedOnes, "plank")
    /\ Required(CompletedOnes, "plank") > 0

(***************************************************************************)
(* C38: two builders and one construction                                  *)
(***************************************************************************)
\* the offsets Math.random gives the second builder of this world: the
\* bottom right tile of the warehouse, within range of the construction,
\* and the bottom left tile, out of its range
CrewOffsets == {<<1, 1>>, <<0, 1>>}

\* one porter at the entry of the warehouse, one builder at the top right
\* tile of the warehouse and a second builder, and a 1x1 construction right
\* of the entry of the warehouse
CrewInit ==
    /\ NoCalls
    /\ pf = NoSearch
    /\ \E buildingType \in {"woodcutter", "stonemason"}, o \in CrewOffsets :
           WorldIs(Placed(NewWorld(<< <<0, 1>>, <<0, -1>>, <<0, -1>> >>,
                                   << <<1, 0>>, o >>),
                          buildingType, <<warehouseX + 2, warehouseY + 1>>))

\* the most ticks one builder is at work while another is on its way
MaxLag == 8

\* World.update, as long as no builder is left behind by more than MaxLag
\* ticks
CrewTick ==
    /\ \A i, j \in 1..Len(settlers) :
           (/\ settlers[i].state = "BUILDING"
            /\ settlers[j].state = "MOVING_TO_CONSTRUCTION")
           => settlers[i].currentBuildingTime < MaxLag * frameTime
    /\ Tick

CrewNext == CrewTick \/ TimerFire

SpecCrew == CrewInit /\ [][CrewNext]_vars

\* the buildings that stand where construction id was
BuiltFrom(id) ==
    {k \in 1..Len(buildings) : buildings[k].position = objects[id].position}

\* builder i finds that its target has left the list of constructions
TargetGone(W, i) ==
    /\ W.settlers[i].type = "builder"
    /\ W.settlers[i].targetConstruction # 0
    /\ W.settlers[i].targetConstruction \notin Range(W.constructions)

\* C38: a construction is completed at most once (once it has left the list
\* it never returns, and the step in which it leaves adds one building) and
\* a completed construction has yielded exactly one building, also when two
\* builders finish on the same tick or one still targets it; a builder
\* whose update finds its target gone changes no construction's progress
C38_CompletedOnce ==
    /\ [](\A id \in DOMAIN objects :
              Completed(id) => Cardinality(BuiltFrom(id)) = 1)
    /\ [][/\ \A id \in DOMAIN objects :
                 id \notin Range(constructions) =>
                     id \notin Range(constructions')
          /\ Len(buildings') - Len(buildings)
                 = Cardinality(Range(constructions) \ Range(constructions'))
          /\ \A arrivals \in SUBSET Moving(CurrentWorld) :
                 SetWorld(WorldUpdate(CurrentWorld, arrivals)) =>
                     \A i \in 1..Len(settlers) :
                         LET before == TurnOf(CurrentWorld, 1, i, arrivals)
                             after == SettlerUpdate(before, i, i \in arrivals)
                         IN  TargetGone(before, i) =>
                                 \A id \in DOMAIN before.objects :
                                     after.objects[id].progress
                                         = before.objects[id].progress
         ]_vars

\* a construction has yielded one building after two builders built it at
\* the same time
C38_Witness ==
    \E id \in DOMAIN objects :
        /\ Completed(id)
        /\ Cardinality(BuiltFrom(id)) = 1
        /\ \A i \in 1..Len(settlers) :
               settlers[i].type = "builder" =>
                   settlers[i].currentBuildingTime >= buildingTime

(***************************************************************************)
(* C39                                                                     *)
(***************************************************************************)
\* settler k has a resource in its hands: the type is set and the amount
\* is 1
Carries(k) ==
    /\ settlers[k].carriedResource # "none"
    /\ settlers[k].carriedAmount = 1

\* C39: a porter carries a resource exactly when it is in
\* DELIVERING_RESOURCE, and the amount it carries is 0 or 1
C39_CarriesIffDelivering ==
    \A k \in 1..Len(settlers) :
        settlers[k].type = "porter" =>
            /\ Carries(k) <=> settlers[k].state = "DELIVERING_RESOURCE"
            /\ settlers[k].carriedAmount \in {0, 1}
            /\ settlers[k].carriedAmount = 0 =>
                   settlers[k].carriedResource = "none"

\* the construction has left the list: one porter, in DELIVERING_RESOURCE,
\* still holds the plank it picked up for it, the other is idle and holds
\* none
C39_Witness ==
    \E k, j \in 1..Len(settlers) :
        /\ settlers[k].type = "porter"
        /\ settlers[k].state = "DELIVERING_RESOURCE"
        /\ Carries(k)
        /\ settlers[j].type = "porter"
        /\ settlers[j].state = "IDLE"
        /\ ~Carries(j)
        /\ constructions = <<>>

=========================================================================
